---- MODULE Spec2Model ----
(***************************************************************************)
(* Model of the indeks browser event tracker: the delivery pipeline        *)
(* (IndeksAnalytics: batch / flush / send / clearBatch) and the lifecycle  *)
(* of the capture engine (IndeksTracker: init / destroy / updateConfig /   *)
(* logEvent and its DOM listeners).                                        *)
(*                                                                         *)
(* JavaScript runs every handler to completion up to its first await, so   *)
(* one action is one synchronous run of a handler; an await on the network *)
(* or on the fingerprinting collaborator splits a method into the part     *)
(* before it and the continuation that runs when the promise settles.      *)
(*                                                                         *)
(* Time advances in steps of the 5000 ms that both the flush timer and the *)
(* auto-flush interval wait: a timer holds the milliseconds left until it  *)
(* is due, a due timer fires before time advances again, and every other   *)
(* step takes no time.                                                     *)
(***************************************************************************)
EXTENDS Integers, Sequences, FiniteSets, TLC

VARIABLES
    batchQueue,         \* IndeksAnalytics.batchQueue: the delivery buffer
    flushTimer,         \* IndeksAnalytics.flushTimer: timer id, 0 for null
    timers,             \* pending window.setTimeout flush timers: id -> ms left
    inflight,           \* send() calls whose fetch has not settled yet
    delivered,          \* payloads of the send() calls that resolved, in order
    nextEvent,          \* id the next captured event gets (ids follow capture order)
    batchCalls,         \* number of batch() calls made directly on the pipeline
    config,             \* IndeksTracker.config: the capture toggles
    userId,             \* IndeksTracker.userId: "null" until the fingerprint resolves
    isInitialized,      \* IndeksTracker.isInitialized
    eventQueue,         \* IndeksTracker.eventQueue: the introspection queue
    autoFlushInterval,  \* IndeksTracker.autoFlushInterval: interval id, 0 for null
    intervals,          \* active window.setInterval timers: id -> ms to next firing
    listeners,          \* per event family, the listeners registered on the DOM
    initAwaiting,       \* init() calls suspended in await initializeUserId()
    initCalls,          \* number of init() calls made so far
    destroyed,          \* destroy() has returned and init() was not called since
    everDestroyed,      \* destroy() has been called at least once
    quiet,              \* no event was captured since destroy() returned
    waited,             \* ms the buffer has stayed non-empty on an initialized tracker
    clickCounts,        \* IndeksTracker.clickCounts: selector -> {count, age of timestamp}
    clickTrail,         \* per selector, the last clicks of the past 2000 ms, oldest first
    burst,              \* per selector, the clicks of the burst under way and its age
    clicked,            \* the selector the rage listener ran for last
    clicksSeen,         \* number of clicks the rage listener has handled
    scrollDepthReached, \* IndeksTracker.scrollDepthReached: the thresholds seen
    depthLogged,        \* per threshold, the scroll_depth events logged so far
    scrollLog,          \* per run of the scroll-depth listener, the thresholds it was past
    sessionEnded,       \* IndeksTracker.sessionEnded
    sessionListeners,   \* setupSessionTracking runs: beforeunload/visibilitychange listener pairs
    visibility,         \* document.visibilityState
    visibilityChanges,  \* number of visibilitychange events so far
    hiddenTimers,       \* pending 1000 ms timers of the visibilitychange listeners: ms left -> count
    hiddenFor,          \* ms the document has stayed hidden without a break, up to 1000
    sessionStarts,      \* number of session_start events emitted so far
    sessionLog,         \* per session_end emitted: its trigger and hiddenFor at that time
    previousUrl,        \* IndeksTracker.previousUrl: "null" until a page view is tracked
    pageViews,          \* IndeksTracker.pageViews
    href,               \* window.location.href
    isIdle,             \* IndeksTracker.isIdle
    idleListeners,      \* setupIdleDetection runs: resetIdleTimer listeners per activity event
    idleTimerLeft,      \* ms left on the timer IndeksTracker.idleTimer names, -1 when none is pending
    sinceIdleCheck,     \* ms since IndeksTracker.lastIdleCheck
    sinceIdleStart,     \* ms since the last idle_start was emitted
    activities,         \* number of activity events so far
    idleLog,            \* per idle event emitted: its type, its trigger and its timing
    clearCalls,         \* number of clearEvents() calls made by the page
    trackCalls,         \* number of track() calls made by the page
    manualListeners,    \* listeners registered on the document by track()
    conversionSeen,     \* a custom event named as a conversion has been captured
    errorTimeout,       \* ms left on the timer errorTimeout names, -1 when none is pending
    errorTarget,        \* the click the pending error check was set by: its place in errTrail
    errClock,           \* Date.now(), in ms since the page was loaded
    errTrail,           \* the clicks, error events and error_click events, in order
    adapter,            \* the storage adapter in use: localStorage, sessionStorage or memory
    webStorage,         \* the item under the adapter's key in the web storage, "null" if none
    memEvents,          \* InMemoryStorageAdapter.events
    storePending,       \* store() calls whose promise has not resolved yet, oldest first
    storeNext,          \* id the next event handed to store() gets
    storeCalls,         \* number of store() calls made so far
    storeOverlapped,    \* some store() call was made while another was unresolved
    analyticsConfig     \* IndeksAnalytics.config: the object its constructor was handed

avars == <<batchQueue, flushTimer, timers, inflight, delivered, waited>>

\* the state of the heuristic detectors
ragevars == <<clickCounts, clickTrail, burst, clicked, clicksSeen>>

scrollvars == <<scrollDepthReached, depthLogged, scrollLog>>

sessionvars == <<sessionEnded, sessionListeners, visibility, visibilityChanges,
                 hiddenTimers, hiddenFor, sessionStarts, sessionLog>>

pagevars == <<previousUrl, pageViews, href>>

idlevars == <<isIdle, idleListeners, idleTimerLeft, sinceIdleCheck, sinceIdleStart,
              activities, idleLog>>

\* the state the calls of the public API leave behind
apivars == <<clearCalls, trackCalls, manualListeners, conversionSeen>>

\* the state of the error click detector
errvars == <<errorTimeout, errorTarget, errClock, errTrail>>

\* a storage adapter and the store it writes
storevars == <<adapter, webStorage, memEvents, storePending, storeNext, storeCalls,
               storeOverlapped>>

\* the configuration object the pipeline holds
cfgvars == <<analyticsConfig>>

dvars == <<ragevars, scrollvars, sessionvars, pagevars, idlevars, apivars, errvars,
           storevars, cfgvars>>

tvars == <<config, userId, isInitialized, eventQueue, autoFlushInterval, intervals,
           listeners, initAwaiting, initCalls,
           destroyed, everDestroyed, quiet, dvars>>

vars == <<avars, nextEvent, batchCalls, tvars>>

----------------------------------------------------------------------------
(* Bounds *)

MaxBatchCalls == 3      \* batch() calls made directly on IndeksAnalytics
MaxInFlight == 2        \* send() calls in flight at the same time
MaxEvents == 2          \* events captured by one tracker
MaxInitCalls == 2       \* init() calls on one tracker
BatchSizes == {1, 49}   \* lengths of the arrays handed to batch()
MaxClicks == 6          \* clicks handled by the rage listener
MaxScrolls == 3         \* runs of the scroll-depth listener
MaxFields == 3          \* fields of a submitted form
MaxVisibilityChanges == 3   \* visibilitychange events of one page
MaxActivities == 2      \* activity events seen by the idle detector
MaxClearCalls == 1      \* clearEvents() calls made by the page
MaxTrackCalls == 2      \* track() calls made by the page
MaxErrorClicks == 2     \* clicks handled by the error click listener
MaxStoreCalls == 3      \* store() calls made on one adapter

(* Program constants *)

DEFAULT_BATCH_SIZE == 50
MAX_BATCH_SIZE == 100

AUTO_FLUSH_INTERVAL == 5000     \* BATCH_CONFIG: delay of the flush timer, ms

TRACKER_FLUSH_INTERVAL == 5000  \* init(): period of the auto-flush interval, ms

\* one step of the clock
TickMs == AUTO_FLUSH_INTERVAL

RAGE_WINDOW == 2000             \* setupRageTracking: window of a click count, ms

RAGE_THRESHOLD == 3             \* setupRageTracking: clicks that make a rage click

RAGE_EVICT == 5000              \* setupRageTracking: age after which an entry is deleted, ms

\* one step of the clock of the click detectors
RageStepMs == 500

\* ages are counted up to the first value past every threshold
AgeCap == RAGE_EVICT + RageStepMs

SESSION_END_DELAY == 1000       \* setupSessionTracking: delay of the hidden check, ms

\* one step of the clock of the session listeners
SessionStepMs == 500

\* the milliseconds a pending hidden check can have left
SessionDelays == {0, 500, 1000}

IDLE_TIMEOUT == 30000           \* setupIdleDetection: default of config.idleTimeoutMs, ms

\* one step of the clock of the idle detector
IdleStepMs == 15000

\* idle ages are counted up to the first value past two timeouts
IdleAgeCap == 2 * IDLE_TIMEOUT + IdleStepMs

\* window.location.href of the page tracked
Href == "https://shop.example/pricing"
\* the URLs the single-page application moves between
Hrefs == {Href, "https://shop.example/cart"}

\* what URLSearchParams.get returns for utm_source: null when the parameter
\* is absent, the empty string when it has no value, else the value
UtmSources == {"null", "", "newsletter"}

\* the values of the ref, referrer and source parameters
RefParams == {"null", "partner"}

ReferrerParams == {"null", "", "mail"}

SourceParams == {"null", "app"}

\* document.referrer: empty for a direct visit
DocumentReferrers == {"", "https://search.example/"}

\* the query string and the referrer a listener can find
Pages == [utm_source : UtmSources, ref : RefParams, referrer : ReferrerParams,
          source : SourceParams, documentReferrer : DocumentReferrers]

\* the selectors getElementSelector derives for the elements clicked
Selectors == {"#buy", "a.more"}

\* config.scrollDepthThresholds, as configured for the page
scrollDepthThresholds == <<50, 100>>

\* the page geometry a scroll listener can read, in pixels
ScrollTops == {0, 300, 600, 1000}

DocumentHeights == {600, 1600}

ViewportHeights == {600, 800}

\* field names, as the sequences of their characters
Username == <<"u", "s", "e", "r", "n", "a", "m", "e">>

Password == <<"p", "a", "s", "s", "w", "o", "r", "d">>

CsrfToken == <<"c", "s", "r", "f", "_", "t", "o", "k", "e", "n">>

ApiSecret == <<"A", "P", "I", "_", "S", "e", "c", "r", "e", "t">>

PassWord == <<"p", "a", "s", "s", "_", "w", "o", "r", "d">>

\* the names of the fields of the pages tracked
FieldNames == {Username, Password, CsrfToken, ApiSecret, PassWord}

\* those of them that contain password, secret or token in some letter case
SensitiveNames == {Password, CsrfToken, ApiSecret}

\* what the user types into a field
FieldValues == {"a", "b"}

Families == {"click"}

Toggles == {"captureClicks", "capturePageViews"}

DEFAULT_CONFIG == [t \in Toggles |-> TRUE]

\* constructor: { ...DEFAULT_CONFIG, ...config } for the Partial config handed in
Configs == {[t \in Toggles |-> IF t \in DOMAIN c THEN c[t] ELSE DEFAULT_CONFIG[t]] :
                c \in UNION {[ts -> BOOLEAN] : ts \in SUBSET Toggles}}

\* an optional key of the configuration: undefined, hence falsy, when absent
Option(cfg, k) == k \in DOMAIN cfg /\ cfg[k]

----------------------------------------------------------------------------
(* Helpers *)

Ids(s) == {s[i].id : i \in DOMAIN s}

\* the events nextEvent .. nextEvent+k-1 of one type, in capture order
NewEvents(k, type) == [i \in 1..k |-> [id |-> nextEvent + i - 1, type |-> type]]

\* window.setTimeout returns an id that no live timer has
FreshTimer(a) == CHOOSE n \in 1..(Cardinality(DOMAIN a.timers) + 2) :
                    n \notin DOMAIN a.timers /\ n # a.flushTimer

\* a function without the key k
Without(f, k) == [x \in DOMAIN f \ {k} |-> f[x]]

\* a function with the key k set to v
With(f, k, v) == [x \in DOMAIN f \cup {k} |-> IF x = k THEN v ELSE f[x]]

\* the pipeline's fields as one value, so that its methods compose
Analytics == [batchQueue |-> batchQueue, flushTimer |-> flushTimer,
              timers |-> timers, inflight |-> inflight, delivered |-> delivered]

SetAnalytics(a) ==
    /\ batchQueue' = a.batchQueue
    /\ flushTimer' = a.flushTimer
    /\ timers' = a.timers
    /\ inflight' = a.inflight
    /\ delivered' = a.delivered
    /\ waited' = IF a.batchQueue = <<>> THEN 0 ELSE waited

----------------------------------------------------------------------------
(* IndeksAnalytics *)

\* clearTimeout(this.flushTimer) when it is set
ClearFlushTimer(a) ==
    IF a.flushTimer # 0 THEN Without(a.timers, a.flushTimer) ELSE a.timers

\* a logEvent that drops the promise of batch() without a handler
Catches_notInLogEvent(by) == by \in {"timer", "interval", "destroy"}

\* the call sites where a rejection handler is attached to the returned promise:
\* logEvent's batch().catch, the timer and interval callbacks' flush().catch
\* and destroy()'s flush().catch
Catches(by) == by \in {"logEvent", "timer", "interval", "destroy"}

\* where a rejection of the promise returned at the call site by ends: in the
\* handler attached there, or at the caller, who gets the rejected promise
rejectsTo(by) == IF Catches(by) THEN "catch" ELSE by

\* send(events) up to its await: nothing for an empty array, else one POST
send(a, s) ==
    IF s.events = <<>> THEN a ELSE [a EXCEPT !.inflight = @ \cup {s}]

\* flush() that posts the swapped-out buffer in two requests, the first event
\* apart from the rest
flush_inChunks(a, inBatch, by) ==
    IF a.batchQueue = <<>> THEN a
    ELSE LET swapped == [a EXCEPT !.batchQueue = <<>>,
                                  !.timers = ClearFlushTimer(a),
                                  !.flushTimer = 0]
             first == [events |-> <<Head(a.batchQueue)>>, inBatch |-> inBatch,
                       rejectsTo |-> rejectsTo(by)]
             rest == [events |-> Tail(a.batchQueue), inBatch |-> inBatch,
                      rejectsTo |-> rejectsTo(by)]
         IN  send(send(swapped, first), rest)

\* flush() that sends the buffer without swapping it out
flush_keepsBuffer(a, inBatch, by) ==
    IF a.batchQueue = <<>> THEN a
    ELSE send(a, [events |-> a.batchQueue, inBatch |-> inBatch, rejectsTo |-> rejectsTo(by)])

\* flush() up to its await: swap the buffer out, cancel the timer, start send();
\* inBatch tells whether the caller is a batch() that awaits the result, by
\* names the call site the returned promise goes back to
flush(a, inBatch, by) ==
    IF a.batchQueue = <<>> THEN a
    ELSE send([a EXCEPT !.batchQueue = <<>>,
                        !.timers = ClearFlushTimer(a),
                        !.flushTimer = 0],
              [events |-> a.batchQueue, inBatch |-> inBatch, rejectsTo |-> rejectsTo(by)])

\* the tail of batch(): cancel the pending timer and arm a new one
armFlushTimer(a) ==
    LET id == FreshTimer(a)
    IN  [a EXCEPT !.timers = With(ClearFlushTimer(a), id, AUTO_FLUSH_INTERVAL),
                  !.flushTimer = id]

\* batch() whose size test is off by one (> instead of >=)
batch_flushesAbove(a, events, by) ==
    LET pushed == [a EXCEPT !.batchQueue = @ \o events]
    IN  IF Len(pushed.batchQueue) > DEFAULT_BATCH_SIZE
        THEN flush(pushed, TRUE, by)
        ELSE armFlushTimer(pushed)

\* batch(events) up to its first await (or to its end when it does not flush)
batch(a, events, by) ==
    LET pushed == [a EXCEPT !.batchQueue = @ \o events]
    IN  IF Len(pushed.batchQueue) >= DEFAULT_BATCH_SIZE
        THEN flush(pushed, TRUE, by)
        ELSE armFlushTimer(pushed)

\* send() resolved: flush() returns; a batch() awaiting it arms its timer
sendResolved(a, s) ==
    LET done == [a EXCEPT !.inflight = @ \ {s},
                          !.delivered = Append(@, s.events)]
    IN  IF s.inBatch THEN armFlushTimer(done) ELSE done

\* a rejected send() whose batch is not put back
sendRejected_drops(a, s) ==
    [a EXCEPT !.inflight = @ \ {s}]

\* send() rejected: flush() re-queues the batch and rethrows
sendRejected(a, s) ==
    [a EXCEPT !.inflight = @ \ {s},
              !.batchQueue = s.events \o @]

clearBatch(a) ==
    [a EXCEPT !.batchQueue = <<>>,
              !.timers = ClearFlushTimer(a),
              !.flushTimer = 0]

getBatchSize == Len(batchQueue)

\* a flush()/batch() step is taken only while the model can hold its send
Fits(a) == Cardinality(a.inflight) <= MaxInFlight

----------------------------------------------------------------------------
(* Actions on the pipeline taken alone *)

Batch(k) ==
    /\ batchCalls < MaxBatchCalls
    /\ LET a == batch(Analytics, NewEvents(k, "custom"), "batch")
       IN  Fits(a) /\ SetAnalytics(a)
    /\ nextEvent' = nextEvent + k
    /\ batchCalls' = batchCalls + 1
    /\ UNCHANGED tvars

Flush ==
    /\ batchQueue # <<>>
    /\ LET a == flush(Analytics, FALSE, "flush")
       IN  Fits(a) /\ SetAnalytics(a)
    /\ UNCHANGED <<nextEvent, batchCalls, tvars>>

FlushEmpty ==
    /\ batchQueue = <<>>
    /\ SetAnalytics(flush(Analytics, FALSE, "flush"))
    /\ UNCHANGED <<nextEvent, batchCalls, tvars>>

\* the setTimeout callback of batch(): this.flush().catch(console.error)
FlushTimerFires ==
    \E id \in DOMAIN timers :
        LET a == flush([Analytics EXCEPT !.timers = Without(@, id)], FALSE, "timer")
        IN  /\ timers[id] = 0
            /\ Fits(a)
            /\ SetAnalytics(a)
            /\ UNCHANGED <<nextEvent, batchCalls, tvars>>

SendResolves ==
    \E s \in inflight :
        /\ SetAnalytics(sendResolved(Analytics, s))
        /\ UNCHANGED <<nextEvent, batchCalls, tvars>>

SendRejects ==
    \E s \in inflight :
        /\ SetAnalytics(sendRejected(Analytics, s))
        /\ UNCHANGED <<nextEvent, batchCalls, tvars>>

----------------------------------------------------------------------------
(* IndeksTracker *)

\* the fields logEvent writes, as one value
Tracker == [eventQueue |-> eventQueue, analytics |-> Analytics]

\* logEvent(event): push on the introspection queue, hand over to batch()
logEvent(tr, event) ==
    [tr EXCEPT !.eventQueue = Append(@, event),
               !.analytics = batch(@, <<event>>, "logEvent")]

\* one DOM event reaches every listener registered for it, each logs its record
RECURSIVE dispatch(_, _)
dispatch(tr, events) ==
    IF events = <<>> THEN tr
    ELSE dispatch(logEvent(tr, Head(events)), Tail(events))

SetTracker(tr) ==
    /\ eventQueue' = tr.eventQueue
    /\ SetAnalytics(tr.analytics)

\* window.setInterval returns an id that no live interval has
FreshInterval == CHOOSE n \in 1..(Cardinality(DOMAIN intervals) + 1) :
                    n \notin DOMAIN intervals

\* the session and idle events emitted so far; they are bounded by the init()
\* calls, the unloads and the activities of the page
lifecycleEvents ==
    sessionStarts + Len(sessionLog) + Len(idleLog)
        + Cardinality({i \in DOMAIN errTrail : errTrail[i].kind = "error_click"})

\* the model follows a tracker for its first MaxEvents captured events
WithinBudget(events) ==
    events = <<>> \/ nextEvent - lifecycleEvents + Len(events) - 1 <= MaxEvents

\* the events captured by a step count against the quiet period after destroy()
Capture(events) ==
    /\ WithinBudget(events)
    /\ nextEvent' = nextEvent + Len(events)

\* setupClickTracking: register the listener when the toggle is on
setupClickTracking(ls, cfg) ==
    [f \in Families |->
        IF f = "click" /\ cfg["captureClicks"] THEN ls[f] + 1 ELSE ls[f]]

\* setupPageViewTracking: the initial page view is tracked while registering
initialPageView(cfg) ==
    IF cfg["capturePageViews"] THEN NewEvents(1, "pageview") ELSE <<>>

\* an init() that forgets to start the interval
startAutoFlush_never(ivs, id) == ivs

\* window.setInterval(() => this.analytics.flush()..., 5000)
startAutoFlush(ivs, id) == With(ivs, id, TRACKER_FLUSH_INTERVAL)

\* setupSessionTracking: session_start is tracked while registering
trackSessionStart(cfg, id) ==
    IF Option(cfg, "captureSessionEvents")
    THEN <<[id |-> id, type |-> "session_start"]>> ELSE <<>>

\* the fields resetIdleTimer and its timer read and write, as one value
Idle == [isIdle |-> isIdle, tracker |-> Tracker, next |-> nextEvent, log |-> idleLog,
         timerLeft |-> idleTimerLeft, sinceCheck |-> sinceIdleCheck]

\* the first half of resetIdleTimer: idle_end when the tracker is idle
endIdle(st, by) ==
    IF st.isIdle
    THEN [st EXCEPT !.tracker = logEvent(@, [id |-> st.next, type |-> "idle_end",
                                             idleDuration |-> st.sinceCheck]),
                    !.next = @ + 1,
                    !.log = Append(@, [type |-> "idle_end", by |-> by,
                                       idleDuration |-> st.sinceCheck,
                                       elapsed |-> sinceIdleStart]),
                    !.isIdle = FALSE]
    ELSE st

\* resetIdleTimer, run by the listener or the setup named by: end the idle
\* period, note the time, replace the pending timer
resetIdleTimer(st, by) ==
    [endIdle(st, by) EXCEPT !.sinceCheck = 0, !.timerLeft = IDLE_TIMEOUT]

\* setupIdleDetection: resetIdleTimer() is called while registering
setupIdleDetection(cfg, st) ==
    IF Option(cfg, "captureIdleEvents") THEN resetIdleTimer(st, "init") ELSE st

SetIdle(st) ==
    /\ isIdle' = st.isIdle
    /\ SetTracker(st.tracker)
    /\ nextEvent' = st.next
    /\ idleLog' = st.log
    /\ idleTimerLeft' = st.timerLeft
    /\ sinceIdleCheck' = st.sinceCheck

\* init() from the first setup call to its end; the session and idle events
\* of a tracker, bounded by its init() calls, are followed beyond MaxEvents
InitBody(afterDestroy) ==
    LET views == initialPageView(config)
        starts == trackSessionStart(config, nextEvent + Len(views))
        events == views \o starts
        tr == dispatch(Tracker, events)
        st == setupIdleDetection(config, [Idle EXCEPT !.tracker = tr,
                                                      !.next = nextEvent + Len(events)])
        id == FreshInterval
    IN  /\ WithinBudget(views)
        /\ SetIdle(st)
        /\ idleListeners' = IF Option(config, "captureIdleEvents")
                            THEN idleListeners + 1 ELSE idleListeners
        /\ sessionListeners' = sessionListeners + Len(starts)
        /\ sessionStarts' = sessionStarts + Len(starts)
        /\ previousUrl' = IF views # <<>> THEN href ELSE previousUrl
        /\ pageViews' = pageViews + Len(views)
        /\ Fits(st.tracker.analytics)
        /\ listeners' = setupClickTracking(listeners, config)
        /\ isInitialized' = TRUE
        /\ autoFlushInterval' = id
        /\ intervals' = startAutoFlush(intervals, id)
        /\ quiet' = (quiet /\ ~(afterDestroy /\ st.next > nextEvent))
        /\ UNCHANGED <<config, everDestroyed, batchCalls, ragevars, scrollvars,
                       sessionEnded, visibility, visibilityChanges, hiddenTimers,
                       hiddenFor, sessionLog, sinceIdleStart, activities, apivars, errvars, storevars, cfgvars, href>>

\* init() up to its await, or to its end when the user id is already known
InitCall ==
    /\ initCalls < MaxInitCalls
    /\ initCalls' = initCalls + 1
    /\ destroyed' = FALSE
    /\ IF isInitialized
       THEN /\ quiet' = TRUE
            /\ UNCHANGED <<avars, nextEvent, batchCalls, config, userId, isInitialized,
                           eventQueue, autoFlushInterval, intervals, listeners,
                           initAwaiting, everDestroyed, dvars>>
       ELSE IF userId = "null"
       THEN /\ initAwaiting' = initAwaiting + 1
            /\ quiet' = TRUE
            /\ UNCHANGED <<avars, nextEvent, batchCalls, config, userId, isInitialized,
                           eventQueue, autoFlushInterval, intervals, listeners,
                           everDestroyed, dvars>>
       ELSE /\ InitBody(FALSE)
            /\ UNCHANGED <<userId, initAwaiting>>

\* an initializeUserId whose catch block assigns nothing
initializeUserId_noFallback(uid, outcome) ==
    IF outcome = "resolves" THEN "id" ELSE uid

\* initializeUserId: the visitor id of the fingerprint, or a generated
\* fallback id when loading or computing the fingerprint throws
initializeUserId(uid, outcome) ==
    IF outcome = "resolves" THEN "id" ELSE "fallback"

\* createBaseEvent: userId: this.userId || "initializing"
stampedUserId(uid) == IF uid \in {"null", ""} THEN "initializing" ELSE uid

\* initializeUserId() settles with the outcome of the fingerprint and init() goes on
InitSettles(outcome) ==
    /\ initAwaiting > 0
    /\ initAwaiting' = initAwaiting - 1
    /\ userId' = initializeUserId(userId, outcome)
    /\ InitBody(destroyed)
    /\ UNCHANGED <<initCalls, destroyed>>

\* the fingerprint resolves and init() goes on
InitResumes == InitSettles("resolves")

\* the fingerprint rejects and init() goes on with the fallback id
InitFallsBack == InitSettles("rejects")

\* the capture-phase click listeners of setupClickTracking
Click ==
    /\ listeners["click"] > 0
    /\ LET events == NewEvents(listeners["click"], "click")
           tr == dispatch(Tracker, events)
       IN  /\ Capture(events)
           /\ Fits(tr.analytics)
           /\ SetTracker(tr)
    /\ quiet' = (quiet /\ ~destroyed)
    /\ UNCHANGED <<batchCalls, config, userId, isInitialized, autoFlushInterval,
                   intervals, listeners, initAwaiting, initCalls,
                   destroyed, everDestroyed, dvars>>

\* clicks in quick succession until the delivery buffer reaches the batch
\* size: every click reaches the click listeners as in Click, the last one
\* makes batch() flush
ClickBurst ==
    /\ listeners["click"] > 0
    /\ nextEvent <= MaxEvents
    /\ Len(batchQueue) < DEFAULT_BATCH_SIZE
    /\ LET missing == DEFAULT_BATCH_SIZE - Len(batchQueue)
           clicks == (missing + listeners["click"] - 1) \div listeners["click"]
           events == NewEvents(clicks * listeners["click"], "click")
           tr == dispatch(Tracker, events)
       IN  /\ nextEvent' = nextEvent + Len(events)
           /\ Fits(tr.analytics)
           /\ SetTracker(tr)
    /\ quiet' = (quiet /\ ~destroyed)
    /\ UNCHANGED <<batchCalls, config, userId, isInitialized, autoFlushInterval,
                   intervals, listeners, initAwaiting, initCalls,
                   destroyed, everDestroyed, dvars>>

updateConfig(cfg, newConfig) ==
    [t \in DOMAIN cfg \cup DOMAIN newConfig |->
        IF t \in DOMAIN newConfig THEN newConfig[t] ELSE cfg[t]]

UpdateConfig ==
    /\ \E t \in Toggles, v \in BOOLEAN :
           config' = updateConfig(config, [x \in {t} |-> v])
    /\ UNCHANGED <<avars, nextEvent, batchCalls, userId, isInitialized, eventQueue,
                   autoFlushInterval, intervals, listeners,
                   initAwaiting, initCalls, destroyed, everDestroyed, quiet, dvars>>

\* the setInterval callback of init(): this.analytics.flush().catch(...)
IntervalFires ==
    \E id \in DOMAIN intervals :
        LET a == flush(Analytics, FALSE, "interval")
        IN  /\ intervals[id] = 0
            /\ Fits(a)
            /\ SetAnalytics(a)
            /\ intervals' = [intervals EXCEPT ![id] = TRACKER_FLUSH_INTERVAL]
            /\ UNCHANGED <<nextEvent, batchCalls, config, userId, isInitialized,
                           eventQueue, autoFlushInterval, listeners, initAwaiting,
                           initCalls, destroyed, everDestroyed, quiet, dvars>>

\* time passes: no timer is overdue, every timer comes TickMs closer
Tick ==
    /\ \A id \in DOMAIN timers : timers[id] >= TickMs
    /\ \A id \in DOMAIN intervals : intervals[id] >= TickMs
    /\ waited <= TickMs
    /\ timers' = [id \in DOMAIN timers |-> timers[id] - TickMs]
    /\ intervals' = [id \in DOMAIN intervals |-> intervals[id] - TickMs]
    /\ waited' = IF isInitialized /\ batchQueue # <<>> THEN waited + TickMs ELSE 0
    /\ UNCHANGED <<batchQueue, flushTimer, inflight, delivered, nextEvent, batchCalls,
                   config, userId, isInitialized, eventQueue, autoFlushInterval,
                   listeners, initAwaiting, initCalls, destroyed, everDestroyed, quiet,
                   dvars>>

destroy ==
    LET flushed == flush(Analytics, FALSE, "destroy")
    IN  /\ Fits(flushed)
        /\ intervals' = IF autoFlushInterval # 0
                        THEN Without(intervals, autoFlushInterval) ELSE intervals
        /\ autoFlushInterval' = 0
        /\ eventQueue' = <<>>
        /\ SetAnalytics(clearBatch(flushed))
        /\ isInitialized' = FALSE

Destroy ==
    /\ destroy
    /\ destroyed' = TRUE
    /\ everDestroyed' = TRUE
    /\ quiet' = TRUE
    /\ UNCHANGED <<nextEvent, batchCalls, config, userId, listeners,
                   initAwaiting, initCalls, dvars>>

----------------------------------------------------------------------------
(* Rage clicks: the first click listener of setupRageTracking *)

\* an age one clock step later
Older(age) == IF age + RageStepMs > AgeCap THEN AgeCap ELSE age + RageStepMs

\* a count that is not reset when the rage click is emitted
rageCount_keepsCount(cc, sel) ==
    IF sel \in DOMAIN cc /\ cc[sel].age < RAGE_WINDOW
    THEN [entries |-> With(cc, sel, [count |-> cc[sel].count + 1, age |-> cc[sel].age]),
          rage |-> cc[sel].count + 1 >= RAGE_THRESHOLD, n |-> cc[sel].count + 1]
    ELSE [entries |-> With(cc, sel, [count |-> 1, age |-> 0]), rage |-> FALSE, n |-> 1]

\* a count that never expires: the age of the entry is not tested
rageCount_noWindow(cc, sel) ==
    IF sel \in DOMAIN cc
    THEN IF cc[sel].count + 1 >= RAGE_THRESHOLD
         THEN [entries |-> With(cc, sel, [count |-> 0, age |-> cc[sel].age]),
               rage |-> TRUE, n |-> cc[sel].count + 1]
         ELSE [entries |-> With(cc, sel, [count |-> cc[sel].count + 1, age |-> cc[sel].age]),
               rage |-> FALSE, n |-> cc[sel].count + 1]
    ELSE [entries |-> With(cc, sel, [count |-> 1, age |-> 0]), rage |-> FALSE, n |-> 1]

\* the listener's count for a click on sel: the map after it and whether the
\* click makes a rage click (of n clicks)
rageCount(cc, sel) ==
    IF sel \in DOMAIN cc /\ cc[sel].age < RAGE_WINDOW
    THEN IF cc[sel].count + 1 >= RAGE_THRESHOLD
         THEN [entries |-> With(cc, sel, [count |-> 0, age |-> cc[sel].age]),
               rage |-> TRUE, n |-> cc[sel].count + 1]
         ELSE [entries |-> With(cc, sel, [count |-> cc[sel].count + 1, age |-> cc[sel].age]),
               rage |-> FALSE, n |-> cc[sel].count + 1]
    ELSE [entries |-> With(cc, sel, [count |-> 1, age |-> 0]), rage |-> FALSE, n |-> 1]

\* the listener's clean-up loop: entries older than RAGE_EVICT are deleted
evictOld(cc) == [k \in {x \in DOMAIN cc : ~(cc[x].age > RAGE_EVICT)} |-> cc[k]]

\* trackRageClick: the record handed to logEvent
rageClickEvent(sel, n) ==
    [id |-> nextEvent, type |-> "rage_click", element |-> sel, clicksInTimeframe |-> n]

\* the last two elements of a sequence
LastTwo(q) == IF Len(q) <= 2 THEN q ELSE SubSeq(q, Len(q) - 1, Len(q))

\* the trail of a selector after a click on it: the click is added, and a rage
\* click counts it and the clicks before it
trailAfterClick(trail, rage) ==
    LET added == Append(trail, [age |-> 0, counted |-> rage])
    IN  LastTwo(IF rage THEN [i \in DOMAIN added |-> [added[i] EXCEPT !.counted = TRUE]]
                ELSE added)

\* the burst of a selector after a click on it: a click with no click in the
\* RAGE_WINDOW before it starts a burst, one within RAGE_WINDOW of the start
\* of the burst under way belongs to it
burstAfterClick(b, trail) ==
    IF trail = <<>> THEN [n |-> 1, age |-> 0]
    ELSE IF b.n > 0 /\ b.age < RAGE_WINDOW THEN [b EXCEPT !.n = @ + 1]
    ELSE [n |-> 0, age |-> 0]

\* one click on the element with selector sel reaches the rage listener
RageClick(sel) ==
    /\ clicksSeen < MaxClicks
    /\ clicksSeen' = clicksSeen + 1
    /\ clicked' = sel
    /\ LET r == rageCount(clickCounts, sel)
           tr == IF r.rage THEN logEvent(Tracker, rageClickEvent(sel, r.n)) ELSE Tracker
       IN  /\ clickCounts' = evictOld(r.entries)
           /\ SetTracker(tr)
           /\ nextEvent' = IF r.rage THEN nextEvent + 1 ELSE nextEvent
           /\ clickTrail' = [clickTrail EXCEPT ![sel] = trailAfterClick(@, r.rage)]
    /\ burst' = [burst EXCEPT ![sel] = burstAfterClick(@, clickTrail[sel])]
    /\ UNCHANGED <<batchCalls, config, userId, isInitialized, autoFlushInterval,
                   intervals, listeners, initAwaiting, initCalls,
                   destroyed, everDestroyed, quiet, scrollvars, sessionvars, pagevars, apivars, errvars, storevars, cfgvars, idlevars>>

\* RageStepMs pass without a click
Wait ==
    /\ clickCounts' = [k \in DOMAIN clickCounts |->
                          [clickCounts[k] EXCEPT !.age = Older(@)]]
    /\ clickTrail' = [sel \in Selectors |->
                         SelectSeq([i \in DOMAIN clickTrail[sel] |->
                                       [clickTrail[sel][i] EXCEPT !.age = Older(@)]],
                                   LAMBDA c : c.age < RAGE_WINDOW)]
    /\ burst' = [sel \in Selectors |->
                    IF burst[sel].n > 0 /\ Older(burst[sel].age) < RAGE_WINDOW
                    THEN [burst[sel] EXCEPT !.age = Older(@)]
                    ELSE [n |-> 0, age |-> 0]]
    /\ UNCHANGED <<avars, nextEvent, batchCalls, config, userId, isInitialized,
                   eventQueue, autoFlushInterval, intervals, listeners, initAwaiting,
                   initCalls, destroyed, everDestroyed, quiet, clicked, clicksSeen,
                   scrollvars, sessionvars, pagevars, apivars, errvars, storevars, cfgvars, idlevars>>

----------------------------------------------------------------------------
(* Scrolling: setupScrollTracking and setupScrollDepthTracking *)

\* a JavaScript number: an integer, NaN or an infinity
Num(n) == [kind |-> "num", value |-> n]

NaN == [kind |-> "NaN", value |-> 0]

Infinity == [kind |-> "Infinity", value |-> 0]

\* Math.round(x) for x = n / d with d > 0: the nearest integer, halves upwards
RoundDiv(n, d) == (2 * n + d) \div (2 * d)

\* Math.round((scrollTop / (documentHeight - viewportHeight)) * 100)
scrollPercentage(scrollTop, documentHeight, viewportHeight) ==
    LET d == documentHeight - viewportHeight
    IN  IF d = 0
        THEN IF scrollTop = 0 THEN NaN ELSE Infinity
        ELSE IF d > 0 THEN Num(RoundDiv(scrollTop * 100, d))
        ELSE Num(RoundDiv(0 - scrollTop * 100, 0 - d))

\* isNaN(scrollPercentage) ? 0 : scrollPercentage
reported(p) == IF p.kind = "NaN" THEN Num(0) ELSE p

\* the scroll record handed to logEvent
scrollEvent(scrollTop, documentHeight, viewportHeight) ==
    [id |-> nextEvent, type |-> "scroll", y |-> scrollTop,
     documentHeight |-> documentHeight, viewportHeight |-> viewportHeight,
     scrollPercentage |->
        reported(scrollPercentage(scrollTop, documentHeight, viewportHeight))]

\* the debounced scroll listener of setupScrollTracking runs
Scroll ==
    \E scrollTop \in ScrollTops, documentHeight \in DocumentHeights,
       viewportHeight \in ViewportHeights :
        LET events == <<scrollEvent(scrollTop, documentHeight, viewportHeight)>>
            tr == dispatch(Tracker, events)
        IN  /\ Capture(events)
            /\ SetTracker(tr)
            /\ UNCHANGED <<batchCalls, config, userId, isInitialized, autoFlushInterval,
                           intervals, listeners, initAwaiting, initCalls,
                           destroyed, everDestroyed, quiet, dvars>>

\* scrollPercentage >= threshold
AtLeast(p, threshold) ==
    \/ p.kind = "Infinity"
    \/ p.kind = "num" /\ p.value >= threshold

\* the thresholds a position is at or past
Past(p) == {scrollDepthThresholds[i] : i \in {j \in DOMAIN scrollDepthThresholds :
                                                AtLeast(p, scrollDepthThresholds[j])}}

\* thresholds that are logged whether or not they were seen before
depthsCrossed_unseen(p, reached) ==
    SelectSeq(scrollDepthThresholds, LAMBDA t : AtLeast(p, t))

\* the thresholds the loop of checkScrollDepth logs, in its order
depthsCrossed(p, reached) ==
    SelectSeq(scrollDepthThresholds, LAMBDA t : AtLeast(p, t) /\ t \notin reached)

\* the scroll_depth records handed to logEvent
depthEvents(depths) ==
    [i \in DOMAIN depths |-> [id |-> nextEvent + i - 1, type |-> "scroll_depth",
                              depth |-> depths[i]]]

\* the debounced scroll listener of setupScrollDepthTracking runs; init() has
\* registered it
ScrollDepth ==
    \E scrollTop \in ScrollTops, documentHeight \in DocumentHeights,
       viewportHeight \in ViewportHeights :
        LET p == scrollPercentage(scrollTop, documentHeight, viewportHeight)
            depths == depthsCrossed(p, scrollDepthReached)
            tr == dispatch(Tracker, depthEvents(depths))
        IN  /\ userId # "null"
            /\ Len(scrollLog) < MaxScrolls
            /\ scrollLog' = Append(scrollLog, Past(p))
            /\ scrollDepthReached' = scrollDepthReached \cup {depths[i] : i \in DOMAIN depths}
            /\ depthLogged' = [i \in DOMAIN scrollDepthThresholds |->
                                  depthLogged[i] + Cardinality({j \in DOMAIN depths :
                                        depths[j] = scrollDepthThresholds[i]})]
            /\ nextEvent' = nextEvent + Len(depths)
            /\ SetTracker(tr)
            /\ quiet' = (quiet /\ ~(destroyed /\ depths # <<>>))
            /\ UNCHANGED <<batchCalls, config, userId, isInitialized, autoFlushInterval,
                           intervals, listeners, initAwaiting, initCalls,
                           destroyed, everDestroyed, ragevars, sessionvars, pagevars, apivars, errvars, storevars, cfgvars, idlevars>>

----------------------------------------------------------------------------
(* Forms and inputs: setupFormTracking and setupInputChangeTracking *)

UpperCase == <<"A", "C", "E", "I", "P", "R", "S", "T">>

LowerCase == <<"a", "c", "e", "i", "p", "r", "s", "t">>

\* String.prototype.toLowerCase, over the letters of FieldNames
toLowerCase(str) ==
    [i \in DOMAIN str |->
        IF \E k \in DOMAIN UpperCase : UpperCase[k] = str[i]
        THEN LowerCase[CHOOSE k \in DOMAIN UpperCase : UpperCase[k] = str[i]]
        ELSE str[i]]

\* String.prototype.includes
includes(str, word) ==
    \E i \in 0..(Len(str) - Len(word)) : SubSeq(str, i + 1, i + Len(word)) = word

\* a filter that compares the key as it is spelt
keyIsSensitive_caseSensitive(key) ==
    \/ includes(key, <<"p", "a", "s", "s", "w", "o", "r", "d">>)
    \/ includes(key, <<"s", "e", "c", "r", "e", "t">>)
    \/ includes(key, <<"t", "o", "k", "e", "n">>)

\* the filter of the FormData loop
keyIsSensitive(key) ==
    \/ includes(toLowerCase(key), <<"p", "a", "s", "s", "w", "o", "r", "d">>)
    \/ includes(toLowerCase(key), <<"s", "e", "c", "r", "e", "t">>)
    \/ includes(toLowerCase(key), <<"t", "o", "k", "e", "n">>)

\* the filter's verdict on each field name, computed once
isSensitive == [key \in FieldNames |-> keyIsSensitive(key)]

\* the FormData loop: formData[key] = value for the keys that pass the filter
collectFormData(fields) ==
    [key \in {k \in DOMAIN fields : ~isSensitive[k]} |-> fields[key]]

\* the submit listener of setupFormTracking; submitted keeps what the form held
FormSubmit ==
    \E names \in SUBSET FieldNames :
        /\ Cardinality(names) <= MaxFields
        /\ LET fields == [n \in names |-> "a"]
               events == <<[id |-> nextEvent, type |-> "form_submit",
                            formData |-> collectFormData(fields), submitted |-> names]>>
               tr == dispatch(Tracker, events)
           IN  /\ Capture(events)
               /\ SetTracker(tr)
        /\ UNCHANGED <<batchCalls, config, userId, isInitialized, autoFlushInterval,
                       intervals, listeners, initAwaiting, initCalls,
                       destroyed, everDestroyed, quiet, dvars>>

\* the test of handleInputEvent that skips a field
inputIsSkipped(field) ==
    \/ field.type = "password"
    \/ includes(toLowerCase(field.name), <<"p", "a", "s", "s", "w", "o", "r", "d">>)

\* the input and change listeners of setupInputChangeTracking
InputChange ==
    \E eventType \in {"input", "change"}, name \in FieldNames,
       type \in {"text", "password"}, value \in FieldValues :
        LET field == [name |-> name, type |-> type, value |-> value]
            events == IF inputIsSkipped(field) THEN <<>>
                      ELSE <<[id |-> nextEvent, type |-> eventType, name |-> name,
                              inputType |-> type, value |-> value]>>
            tr == dispatch(Tracker, events)
        IN  /\ events # <<>>
            /\ Capture(events)
            /\ SetTracker(tr)
            /\ UNCHANGED <<batchCalls, config, userId, isInitialized, autoFlushInterval,
                           intervals, listeners, initAwaiting, initCalls,
                           destroyed, everDestroyed, quiet, dvars>>

----------------------------------------------------------------------------
(* Referrer enrichment: createBaseEvent and trackPageView *)

\* a || b on strings and null: a unless it is null or empty
Or(a, b) == IF a \in {"null", ""} THEN b ELSE a

\* urlParams.get('ref') || urlParams.get('referrer') || urlParams.get('source')
customRef(page) == Or(Or(page.ref, page.referrer), page.source)

\* createBaseEvent: the referrer of the base event
baseReferrer(page, previous) ==
    Or(Or(Or(Or(page.utm_source, customRef(page)), previous), page.documentReferrer),
       "undefined")

\* trackPageView: { ...this.createBaseEvent(), referrer: previousUrl || document.referrer }
pageViewReferrer(page, previous) == Or(previous, page.documentReferrer)

\* the URL trackPageView runs at: the landing page for the initial page view,
\* the page the application has moved to for a page view of the MutationObserver
navigate(url, previous) ==
    IF previous = "null" THEN url ELSE CHOOSE u \in Hrefs : u # url

\* the initial trackPageView, or the MutationObserver of setupPageViewTracking
\* seeing a new URL: trackPageView
TrackPageView ==
    \E page \in Pages :
        LET url == navigate(href, previousUrl)
            events == <<[id |-> nextEvent, type |-> "pageview", page |-> page,
                         url |-> url, views |-> pageViews + 1,
                         previousUrl |-> previousUrl,
                         referrer |-> pageViewReferrer(page, previousUrl)]>>
            tr == dispatch(Tracker, events)
        IN  /\ Capture(events)
            /\ SetTracker(tr)
            /\ href' = url
            /\ previousUrl' = url
            /\ pageViews' = pageViews + 1
            /\ UNCHANGED <<batchCalls, config, userId, isInitialized, autoFlushInterval,
                           intervals, listeners, initAwaiting, initCalls,
                           destroyed, everDestroyed, quiet, ragevars, scrollvars,
                           sessionvars, idlevars, apivars, errvars, storevars, cfgvars>>

\* a click listener builds its record on createBaseEvent
BaseEventClick ==
    \E page \in Pages :
        LET events == <<[id |-> nextEvent, type |-> "click", page |-> page,
                         url |-> href, views |-> pageViews,
                         previousUrl |-> previousUrl,
                         referrer |-> baseReferrer(page, previousUrl)]>>
            tr == dispatch(Tracker, events)
        IN  /\ Capture(events)
            /\ SetTracker(tr)
            /\ UNCHANGED <<batchCalls, config, userId, isInitialized, autoFlushInterval,
                           intervals, listeners, initAwaiting, initCalls,
                           destroyed, everDestroyed, quiet, dvars>>

----------------------------------------------------------------------------
(* Session lifecycle: setupSessionTracking and trackSessionEnd *)

\* the fields trackSessionEnd reads and writes, as one value
\* the eventName values of the schemas handed to track()
ButtonClick == <<"b", "u", "t", "t", "o", "n", "_", "c", "l", "i", "c", "k">>
SignupConverted == <<"s", "i", "g", "n", "u", "p", "_", "c", "o", "n", "v", "e", "r", "t", "e", "d">>
EventNames == {ButtonClick, SignupConverted}

\* those of them that name a conversion
ConversionNames == {SignupConverted}

\* hasConversion: some custom event of the queue has "convert" in its eventName
hasConversion(queue) ==
    \E i \in DOMAIN queue :
        /\ queue[i].type = "custom"
        /\ "eventName" \in DOMAIN queue[i]
        /\ includes(queue[i].eventName, <<"c", "o", "n", "v", "e", "r", "t">>)

\* IndeksTracker.totalClicks and totalScrolls: initialised to 0, only ever read
totalClicks == 0
totalScrolls == 0

Session == [ended |-> sessionEnded, tracker |-> Tracker, next |-> nextEvent,
            log |-> sessionLog]

\* the body of trackSessionEnd past its guard: set the flag, log session_end
endSession(se, by) ==
    [ended |-> TRUE,
     tracker |-> logEvent(se.tracker,
                          [id |-> se.next, type |-> "session_end",
                           exitType |-> IF visibility = "hidden" THEN "tab_close"
                                        ELSE "navigation",
                           pagesViewed |-> pageViews,
                           totalClicks |-> totalClicks,
                           totalScrolls |-> totalScrolls,
                           converted |-> hasConversion(se.tracker.eventQueue),
                           bounce |-> (pageViews = 1)]),
     next |-> se.next + 1,
     log |-> Append(se.log, [by |-> by, hiddenFor |-> hiddenFor,
                             converted |-> hasConversion(se.tracker.eventQueue),
                             conversionSeen |-> conversionSeen])]

\* a trackSessionEnd that does not test the flag
trackSessionEnd_unguarded(se, by) == endSession(se, by)

\* trackSessionEnd, called by the listener or timer named by
trackSessionEnd(se, by) == IF se.ended THEN se ELSE endSession(se, by)

\* beforeunload reaches each of the n listeners registered for it
RECURSIVE beforeUnload(_, _)
beforeUnload(se, n) ==
    IF n = 0 THEN se ELSE beforeUnload(trackSessionEnd(se, "beforeunload"), n - 1)

SetSession(se) ==
    /\ sessionEnded' = se.ended
    /\ SetTracker(se.tracker)
    /\ nextEvent' = se.next
    /\ sessionLog' = se.log
    /\ quiet' = (quiet /\ ~(destroyed /\ se.next > nextEvent))

\* the page is about to unload: the beforeunload listeners run
BeforeUnload ==
    /\ sessionListeners > 0
    /\ SetSession(beforeUnload(Session, sessionListeners))
    /\ UNCHANGED <<batchCalls, config, userId, isInitialized, autoFlushInterval,
                   intervals, listeners, initAwaiting, initCalls,
                   destroyed, everDestroyed, ragevars, scrollvars, pagevars, apivars, errvars, storevars, cfgvars, idlevars,
                   sessionListeners, visibility, visibilityChanges, hiddenTimers,
                   hiddenFor, sessionStarts>>

\* the document becomes hidden or visible: each visibilitychange listener
\* that finds it hidden starts its timer
VisibilityChange ==
    /\ visibilityChanges < MaxVisibilityChanges
    /\ visibilityChanges' = visibilityChanges + 1
    /\ visibility' = IF visibility = "hidden" THEN "visible" ELSE "hidden"
    /\ hiddenFor' = 0
    /\ hiddenTimers' = IF visibility' = "hidden"
                       THEN [hiddenTimers EXCEPT ![SESSION_END_DELAY] = @ + sessionListeners]
                       ELSE hiddenTimers
    /\ UNCHANGED <<avars, nextEvent, batchCalls, config, userId, isInitialized,
                   eventQueue, autoFlushInterval, intervals, listeners, initAwaiting,
                   initCalls, destroyed, everDestroyed, quiet, ragevars, scrollvars, pagevars, apivars, errvars, storevars, cfgvars, idlevars,
                   sessionEnded, sessionListeners, sessionStarts, sessionLog>>

\* the callback of one due timer: trackSessionEnd if the document is hidden now
SessionTimerFires ==
    /\ hiddenTimers[0] > 0
    /\ hiddenTimers' = [hiddenTimers EXCEPT ![0] = @ - 1]
    /\ SetSession(IF visibility = "hidden" THEN trackSessionEnd(Session, "timer")
                  ELSE Session)
    /\ UNCHANGED <<batchCalls, config, userId, isInitialized, autoFlushInterval,
                   intervals, listeners, initAwaiting, initCalls,
                   destroyed, everDestroyed, ragevars, scrollvars, pagevars, apivars, errvars, storevars, cfgvars, idlevars,
                   sessionListeners, visibility, visibilityChanges,
                   hiddenFor, sessionStarts>>

\* SessionStepMs pass: no hidden check is overdue, each comes closer
SessionWait ==
    /\ hiddenTimers[0] = 0
    /\ hiddenTimers' = [ms \in SessionDelays |->
                           IF ms + SessionStepMs \in SessionDelays
                           THEN hiddenTimers[ms + SessionStepMs] ELSE 0]
    /\ hiddenFor' = IF visibility # "hidden" THEN 0
                    ELSE IF hiddenFor + SessionStepMs > SESSION_END_DELAY
                    THEN SESSION_END_DELAY ELSE hiddenFor + SessionStepMs
    /\ UNCHANGED <<avars, nextEvent, batchCalls, config, userId, isInitialized,
                   eventQueue, autoFlushInterval, intervals, listeners, initAwaiting,
                   initCalls, destroyed, everDestroyed, quiet, ragevars, scrollvars, pagevars, apivars, errvars, storevars, cfgvars, idlevars,
                   sessionEnded, sessionListeners, visibility, visibilityChanges,
                   sessionStarts, sessionLog>>

----------------------------------------------------------------------------
(* Idle detection: setupIdleDetection *)

\* one activity event reaches each of the n resetIdleTimer listeners
RECURSIVE activity(_, _)
activity(st, n) ==
    IF n = 0 THEN st ELSE activity(resetIdleTimer(st, "activity"), n - 1)

\* the callback of the idle timer: idle_start unless the tracker is idle already
idleTimeout(st) ==
    IF ~st.isIdle
    THEN [st EXCEPT !.tracker = logEvent(@, [id |-> st.next, type |-> "idle_start"]),
                    !.next = @ + 1,
                    !.log = Append(@, [type |-> "idle_start", by |-> "timer",
                                       idleDuration |-> 0,
                                       elapsed |-> st.sinceCheck]),
                    !.isIdle = TRUE,
                    !.timerLeft = -1]
    ELSE [st EXCEPT !.timerLeft = -1]

\* a mousedown, mousemove, keypress, scroll, touchstart or click event
IdleActivity ==
    /\ idleListeners > 0
    /\ activities < MaxActivities
    /\ activities' = activities + 1
    /\ LET st == activity(Idle, idleListeners)
       IN  /\ SetIdle(st)
           /\ quiet' = (quiet /\ ~(destroyed /\ st.next > nextEvent))
    /\ UNCHANGED <<batchCalls, config, userId, isInitialized, autoFlushInterval,
                   intervals, listeners, initAwaiting, initCalls,
                   destroyed, everDestroyed, ragevars, scrollvars, sessionvars,
                   pagevars, apivars, errvars, storevars, cfgvars, idleListeners, sinceIdleStart>>

\* the idle timer is due and its callback runs
IdleTimerFires ==
    /\ idleTimerLeft = 0
    /\ LET st == idleTimeout(Idle)
       IN  /\ SetIdle(st)
           /\ sinceIdleStart' = IF st.isIdle /\ ~isIdle THEN 0 ELSE sinceIdleStart
           /\ quiet' = (quiet /\ ~(destroyed /\ st.next > nextEvent))
    /\ UNCHANGED <<batchCalls, config, userId, isInitialized, autoFlushInterval,
                   intervals, listeners, initAwaiting, initCalls,
                   destroyed, everDestroyed, ragevars, scrollvars, sessionvars,
                   pagevars, apivars, errvars, storevars, cfgvars, idleListeners, activities>>

\* an idle age one clock step later
IdleOlder(age) == IF age + IdleStepMs > IdleAgeCap THEN IdleAgeCap ELSE age + IdleStepMs

\* IdleStepMs pass without an activity event: the timer is not overdue
IdleWait ==
    /\ idleTimerLeft # 0
    /\ idleTimerLeft' = IF idleTimerLeft > 0 THEN idleTimerLeft - IdleStepMs ELSE idleTimerLeft
    /\ sinceIdleCheck' = IdleOlder(sinceIdleCheck)
    /\ sinceIdleStart' = IdleOlder(sinceIdleStart)
    /\ UNCHANGED <<avars, nextEvent, batchCalls, config, userId, isInitialized,
                   eventQueue, autoFlushInterval, intervals, listeners, initAwaiting,
                   initCalls, destroyed, everDestroyed, quiet, ragevars, scrollvars,
                   sessionvars, pagevars, apivars, errvars, storevars, cfgvars, isIdle, idleListeners, activities, idleLog>>

----------------------------------------------------------------------------
(* Specifications *)

----------------------------------------------------------------------------
(* The public calls on a tracker: clearEvents(), flush(), track() *)

\* clearEvents() that also empties the delivery buffer
clearEvents_clearsBatch(tr) ==
    [tr EXCEPT !.eventQueue = <<>>, !.analytics = clearBatch(@)]

\* clearEvents(): this.eventQueue = []
clearEvents(tr) == [tr EXCEPT !.eventQueue = <<>>]

ClearEvents ==
    /\ clearCalls < MaxClearCalls
    /\ clearCalls' = clearCalls + 1
    /\ SetTracker(clearEvents(Tracker))
    /\ UNCHANGED <<nextEvent, batchCalls, config, userId, isInitialized,
                   autoFlushInterval, intervals, listeners, initAwaiting, initCalls,
                   destroyed, everDestroyed, quiet, ragevars, scrollvars, sessionvars,
                   pagevars, idlevars, errvars, storevars, cfgvars, trackCalls, manualListeners, conversionSeen>>

\* the selectors a schema handed to track() may name
SelectorCounts == {1, 2}

\* track(schema) that registers its listeners whatever the state of the tracker
track_unguarded(ml, initialized, selectors) == ml + selectors

\* track(schema): return after the warning when the tracker is not initialized,
\* else one document.addEventListener per selector of the schema
track(ml, initialized, selectors) ==
    IF ~initialized THEN ml ELSE ml + selectors

Track ==
    \E selectors \in SelectorCounts :
        /\ trackCalls < MaxTrackCalls
        /\ trackCalls' = trackCalls + 1
        /\ manualListeners' = track(manualListeners, isInitialized, selectors)
        /\ UNCHANGED <<avars, nextEvent, batchCalls, config, userId, isInitialized,
                       eventQueue, autoFlushInterval, intervals, listeners, initAwaiting,
                       initCalls, destroyed, everDestroyed, quiet, ragevars, scrollvars,
                       sessionvars, pagevars, idlevars, errvars, storevars, cfgvars, clearCalls, conversionSeen>>

\* const tracker = indeks(apiKey, ...); tracker.track(schema): the factory
\* constructs the tracker and calls init() on a loaded document, which suspends
\* in await initializeUserId(); the factory returns and track() runs in the
\* same task
QuickStart ==
    \E selectors \in SelectorCounts :
        /\ initCalls = 0
        /\ ~isInitialized /\ userId = "null"
        /\ trackCalls < MaxTrackCalls
        /\ initCalls' = initCalls + 1
        /\ initAwaiting' = initAwaiting + 1
        /\ destroyed' = FALSE
        /\ quiet' = TRUE
        /\ trackCalls' = trackCalls + 1
        /\ manualListeners' = track(manualListeners, isInitialized, selectors)
        /\ UNCHANGED <<avars, nextEvent, batchCalls, config, userId, isInitialized,
                       eventQueue, autoFlushInterval, intervals, listeners,
                       everDestroyed, ragevars, scrollvars, sessionvars, pagevars,
                       idlevars, errvars, storevars, cfgvars, clearCalls, conversionSeen>>

\* an event of the schema's type on an element every selector matches: each
\* listener track() registered logs one custom event
ManualEvent ==
    /\ manualListeners > 0
    /\ LET events == NewEvents(manualListeners, "custom")
           tr == dispatch(Tracker, events)
       IN  /\ Capture(events)
           /\ Fits(tr.analytics)
           /\ SetTracker(tr)
    /\ quiet' = (quiet /\ ~destroyed)
    /\ UNCHANGED <<batchCalls, config, userId, isInitialized, autoFlushInterval,
                   intervals, listeners, initAwaiting, initCalls,
                   destroyed, everDestroyed, dvars>>

\* an event reaches the listener of a schema whose eventName is name: it logs
\* one custom event under that name
CustomEvent(name) ==
    /\ manualListeners > 0
    /\ LET events == <<[id |-> nextEvent, type |-> "custom", eventName |-> name]>>
           tr == dispatch(Tracker, events)
       IN  /\ Capture(events)
           /\ Fits(tr.analytics)
           /\ SetTracker(tr)
    /\ conversionSeen' = (conversionSeen \/ name \in ConversionNames)
    /\ quiet' = (quiet /\ ~destroyed)
    /\ UNCHANGED <<batchCalls, config, userId, isInitialized, autoFlushInterval,
                   intervals, listeners, initAwaiting, initCalls,
                   destroyed, everDestroyed, ragevars, scrollvars, sessionvars,
                   pagevars, idlevars, errvars, storevars, cfgvars, clearCalls, trackCalls, manualListeners>>

----------------------------------------------------------------------------
(* Error clicks: the third click listener of setupRageTracking *)

ERROR_CHECK_DELAY == 100    \* ms between a click and its look at the queue
ERROR_WINDOW == 1000        \* ms an error event counts as recent
ErrSteps == {50, 1000}      \* the steps the clock of the detector moves in
ErrClockCap == 1200         \* ms of the page's life that are followed

\* the error events of the queue less than ERROR_WINDOW old, in queue order
recentErrors(queue, now) ==
    SelectSeq(queue, LAMBDA e : e.type = "error" /\ now - e.timestamp < ERROR_WINDOW)

\* a click: the listener cancels the pending check and sets a new one
ErrClick ==
    /\ Cardinality({i \in DOMAIN errTrail : errTrail[i].kind = "click"}) < MaxErrorClicks
    /\ errTrail' = Append(errTrail, [kind |-> "click", at |-> errClock, click |-> 0, error |-> 0])
    /\ errorTarget' = Len(errTrail')
    /\ errorTimeout' = ERROR_CHECK_DELAY
    /\ UNCHANGED <<avars, nextEvent, batchCalls, config, userId, isInitialized,
                   eventQueue, autoFlushInterval, intervals, listeners, initAwaiting,
                   initCalls, destroyed, everDestroyed, quiet, ragevars, scrollvars,
                   sessionvars, pagevars, idlevars, apivars, storevars, cfgvars, errClock>>

\* the error listener of setupErrorTracking logs an error event
ErrorCaptured ==
    LET events == <<[id |-> nextEvent, type |-> "error", timestamp |-> errClock]>>
        tr == dispatch(Tracker, events)
    IN  /\ Capture(events)
        /\ Fits(tr.analytics)
        /\ SetTracker(tr)
        /\ errTrail' = Append(errTrail, [kind |-> "error", at |-> errClock,
                                         click |-> 0, error |-> nextEvent])
        /\ UNCHANGED <<batchCalls, config, userId, isInitialized, autoFlushInterval,
                       intervals, listeners, initAwaiting, initCalls, destroyed,
                       everDestroyed, quiet, ragevars, scrollvars, sessionvars,
                       pagevars, idlevars, apivars, storevars, cfgvars, errorTimeout, errorTarget,
                       errClock>>

\* the callback of the pending check: trackErrorClick for the click that set it
\* and the first recent error, if there is one
ErrorTimeoutFires ==
    /\ errorTimeout = 0
    /\ LET recent == recentErrors(eventQueue, errClock)
           events == IF recent = <<>> THEN <<>>
                     ELSE <<[id |-> nextEvent, type |-> "error_click",
                             click |-> errorTarget, error |-> recent[1].id,
                             timestamp |-> errClock]>>
           tr == dispatch(Tracker, events)
       IN  /\ Fits(tr.analytics)
           /\ SetTracker(tr)
           /\ nextEvent' = nextEvent + Len(events)
           /\ errTrail' = IF recent = <<>> THEN errTrail
                          ELSE Append(errTrail, [kind |-> "error_click", at |-> errClock,
                                                 click |-> errorTarget,
                                                 error |-> recent[1].id])
    /\ errorTimeout' = -1
    /\ UNCHANGED <<batchCalls, config, userId, isInitialized, autoFlushInterval,
                   intervals, listeners, initAwaiting, initCalls, destroyed,
                   everDestroyed, quiet, ragevars, scrollvars, sessionvars,
                   pagevars, idlevars, apivars, storevars, cfgvars, errorTarget, errClock>>

\* d ms pass: the pending check is not overdue and comes closer
ErrWait(d) ==
    /\ errClock + d <= ErrClockCap
    /\ errorTimeout = -1 \/ d <= errorTimeout
    /\ errClock' = errClock + d
    /\ errorTimeout' = IF errorTimeout = -1 THEN -1 ELSE errorTimeout - d
    /\ UNCHANGED <<avars, nextEvent, batchCalls, config, userId, isInitialized,
                   eventQueue, autoFlushInterval, intervals, listeners, initAwaiting,
                   initCalls, destroyed, everDestroyed, quiet, ragevars, scrollvars,
                   sessionvars, pagevars, idlevars, apivars, storevars, cfgvars, errorTarget,
                   errTrail>>

----------------------------------------------------------------------------
(* The storage adapters *)

Adapters == {"localStorage", "sessionStorage", "memory"}

\* the lengths of the arrays handed to store()
StoreSizes == {1, 2}

\* JSON.stringify of an array of events
stringify(events) == <<"json", events>>

\* safeJsonParse: JSON.parse, the fallback when it throws
safeJsonParse(json, fallback) ==
    IF Len(json) = 2 /\ json[1] = "json" THEN json[2] ELSE fallback

\* retrieve(): the in-memory array, or the parsed item of the web storage
retrieve ==
    IF adapter = "memory" THEN memEvents
    ELSE IF webStorage # "null" THEN safeJsonParse(webStorage, <<>>) ELSE <<>>

\* size(): the length of what retrieve() returns
size == Len(retrieve)

\* store(events) up to the point where it gives way: the in-memory adapter has
\* pushed the events, the other two have called retrieve() and hold its result
\* across their await
StoreCall(k) ==
    LET events == [i \in 1..k |-> [id |-> storeNext + i - 1, type |-> "custom"]]
    IN  /\ storeCalls < MaxStoreCalls
        /\ storeCalls' = storeCalls + 1
        /\ storeNext' = storeNext + k
        /\ storeOverlapped' = (storeOverlapped \/ storePending # <<>>)
        /\ storePending' = Append(storePending,
                                  [events |-> events, existingEvents |-> retrieve])
        /\ memEvents' = IF adapter = "memory" THEN memEvents \o events ELSE memEvents
        /\ UNCHANGED <<avars, nextEvent, batchCalls, config, userId, isInitialized,
                       eventQueue, autoFlushInterval, intervals, listeners,
                       initAwaiting, initCalls, destroyed, everDestroyed, quiet,
                       ragevars, scrollvars, sessionvars, pagevars, idlevars, apivars,
                       errvars, cfgvars, adapter, webStorage>>

\* the oldest unresolved store() call runs to its end and its promise resolves:
\* setItem(key, JSON.stringify([...existingEvents, ...events]))
StoreResumes ==
    /\ storePending # <<>>
    /\ storePending' = Tail(storePending)
    /\ webStorage' = IF adapter = "memory" THEN webStorage
                     ELSE stringify(Head(storePending).existingEvents
                                        \o Head(storePending).events)
    /\ UNCHANGED <<avars, nextEvent, batchCalls, config, userId, isInitialized,
                   eventQueue, autoFlushInterval, intervals, listeners,
                   initAwaiting, initCalls, destroyed, everDestroyed, quiet,
                   ragevars, scrollvars, sessionvars, pagevars, idlevars, apivars,
                   errvars, cfgvars, adapter, memEvents, storeNext, storeCalls,
                   storeOverlapped>>

----------------------------------------------------------------------------
(* The configuration the pipeline posts with *)

Endpoints == {"https://collector.example/a", "https://collector.example/b"}
ApiKeys == {"key-a", "key-b"}

\* what send() reads for its POST: this.config.endpoint || defaultEndpoint and
\* this.config.apiKey
postTarget(cfg) ==
    [endpoint |-> IF "endpoint" \in DOMAIN cfg THEN cfg["endpoint"] ELSE "default",
     apiKey |-> cfg["apiKey"]]

\* updateConfig({endpoint: E}) or updateConfig({apiKey: K})
UpdateDelivery ==
    /\ \/ \E e \in Endpoints : config' = updateConfig(config, [x \in {"endpoint"} |-> e])
       \/ \E k \in ApiKeys : config' = updateConfig(config, [x \in {"apiKey"} |-> k])
    /\ UNCHANGED <<avars, nextEvent, batchCalls, userId, isInitialized, eventQueue,
                   autoFlushInterval, intervals, listeners,
                   initAwaiting, initCalls, destroyed, everDestroyed, quiet, dvars>>

----------------------------------------------------------------------------
(* init() whose setup throws *)

\* init() from the first setup call to setupSessionTracking, where
\* trackSessionStart throws before it logs (the storage is not accessible): the
\* setup routines before it have run, the ones after it and the end of init()
\* have not
InitBodyThrows(afterDestroy) ==
    LET views == initialPageView(config)
        tr == dispatch(Tracker, views)
    IN  /\ Option(config, "captureSessionEvents")
        /\ WithinBudget(views)
        /\ Fits(tr.analytics)
        /\ SetTracker(tr)
        /\ nextEvent' = nextEvent + Len(views)
        /\ listeners' = setupClickTracking(listeners, config)
        /\ previousUrl' = IF views # <<>> THEN href ELSE previousUrl
        /\ pageViews' = pageViews + Len(views)
        /\ quiet' = (quiet /\ ~(afterDestroy /\ views # <<>>))
        /\ UNCHANGED <<config, everDestroyed, batchCalls, isInitialized,
                       autoFlushInterval, intervals, ragevars, scrollvars, sessionvars,
                       idlevars, apivars, errvars, storevars, cfgvars, href>>

\* an init() call that ends by rejecting: the one resumed after its await, or
\* one made on a tracker that knows its user id
InitThrows ==
    \/ /\ initAwaiting > 0
       /\ initAwaiting' = initAwaiting - 1
       /\ userId' = initializeUserId(userId, "resolves")
       /\ InitBodyThrows(destroyed)
       /\ UNCHANGED <<initCalls, destroyed>>
    \/ /\ initCalls < MaxInitCalls
       /\ ~isInitialized
       /\ userId # "null"
       /\ initCalls' = initCalls + 1
       /\ destroyed' = FALSE
       /\ InitBodyThrows(FALSE)
       /\ UNCHANGED <<userId, initAwaiting>>

\* the fields of a tracker and of its page after construction
Fresh ==
    /\ userId = "null"
    /\ isInitialized = FALSE
    /\ eventQueue = <<>>
    /\ autoFlushInterval = 0
    /\ intervals = <<>>
    /\ listeners = [f \in Families |-> 0]
    /\ initAwaiting = 0
    /\ initCalls = 0
    /\ destroyed = FALSE
    /\ everDestroyed = FALSE
    /\ quiet = TRUE
    /\ clickCounts = [sel \in {} |-> 0]
    /\ clickTrail = [sel \in Selectors |-> <<>>]
    /\ burst = [sel \in Selectors |-> [n |-> 0, age |-> 0]]
    /\ clicked = "none"
    /\ clicksSeen = 0
    /\ scrollDepthReached = {}
    /\ depthLogged = [i \in DOMAIN scrollDepthThresholds |-> 0]
    /\ scrollLog = <<>>
    /\ waited = 0
    /\ batchQueue = <<>>
    /\ flushTimer = 0
    /\ timers = <<>>
    /\ inflight = {}
    /\ delivered = <<>>
    /\ nextEvent = 1
    /\ batchCalls = 0
    /\ sessionEnded = FALSE
    /\ sessionListeners = 0
    /\ visibility = "visible"
    /\ visibilityChanges = 0
    /\ hiddenTimers = [ms \in SessionDelays |-> 0]
    /\ hiddenFor = 0
    /\ sessionStarts = 0
    /\ sessionLog = <<>>
    /\ previousUrl = "null"
    /\ pageViews = 0
    /\ href = Href
    /\ isIdle = FALSE
    /\ idleListeners = 0
    /\ idleTimerLeft = -1
    /\ sinceIdleCheck = 0
    /\ sinceIdleStart = 0
    /\ activities = 0
    /\ idleLog = <<>>
    /\ clearCalls = 0
    /\ trackCalls = 0
    /\ manualListeners = 0
    /\ conversionSeen = FALSE
    /\ errorTimeout = -1
    /\ errorTarget = 0
    /\ errClock = 0
    /\ errTrail = <<>>
    /\ webStorage = "null"
    /\ memEvents = <<>>
    /\ storePending = <<>>
    /\ storeNext = 1
    /\ storeCalls = 0
    /\ storeOverlapped = FALSE
    /\ analyticsConfig = config

\* a tracker after construction; its page holds an in-memory adapter
Constructed ==
    /\ Fresh
    /\ adapter = "memory"

Init ==
    /\ config \in Configs
    /\ Constructed

NextAnalytics ==
    \/ \E k \in BatchSizes : Batch(k)
    \/ Flush
    \/ FlushEmpty
    \/ FlushTimerFires
    \/ SendResolves
    \/ SendRejects
    \/ Tick

SpecAnalytics == Init /\ [][NextAnalytics]_vars

Next ==
    \/ InitCall
    \/ InitResumes
    \/ Click
    \/ UpdateConfig
    \/ IntervalFires
    \/ Destroy
    \/ Flush
    \/ FlushEmpty
    \/ FlushTimerFires
    \/ SendResolves
    \/ SendRejects
    \/ Tick

Spec == Init /\ [][Next]_vars

\* fairness of the browser: time passes, due timers fire, and no send is
\* rejected forever (the proviso "send() eventually succeeds")
Fairness ==
    /\ WF_vars(Tick)
    /\ WF_vars(IntervalFires)
    /\ WF_vars(FlushTimerFires)
    /\ \A e \in 1..MaxEvents :
           SF_vars(\E s \in inflight :
                      /\ e \in Ids(s.events)
                      /\ SetAnalytics(sendResolved(Analytics, s))
                      /\ UNCHANGED <<nextEvent, batchCalls, tvars>>)

\* the tracker under the configuration it was constructed with
NextFixedConfig ==
    \/ InitCall
    \/ InitResumes
    \/ Click
    \/ IntervalFires
    \/ Destroy
    \/ Flush
    \/ FlushEmpty
    \/ FlushTimerFires
    \/ SendResolves
    \/ SendRejects
    \/ Tick

LiveSpec == Init /\ [][NextFixedConfig]_vars /\ Fairness

\* the tracker on a page busy enough to fill a batch
NextBusyPage ==
    \/ NextFixedConfig
    \/ ClickBurst

SpecBusyPage == Init /\ [][NextBusyPage]_vars

\* the rage listener alone, under clicks on a few elements as time passes
NextRage ==
    \/ \E sel \in Selectors : RageClick(sel)
    \/ Wait

SpecRage == Init /\ [][NextRage]_vars

\* the scroll listener alone, for the page geometries it can meet
NextScroll == Scroll

SpecScroll == Init /\ [][NextScroll]_vars

\* the scroll-depth listener over the life of one tracker
NextScrollDepth ==
    \/ InitCall
    \/ InitResumes
    \/ Destroy
    \/ ScrollDepth

SpecScrollDepth == Init /\ [][NextScrollDepth]_vars

\* the submit listener alone, for the forms of the page
NextForms == FormSubmit

SpecForms == Init /\ [][NextForms]_vars

\* the input and change listeners alone, for the fields of the page
NextInputs == InputChange

SpecInputs == Init /\ [][NextInputs]_vars

\* a tracker constructed with captureSessionEvents on, over the life of its page
InitSession ==
    /\ config = With([DEFAULT_CONFIG EXCEPT !["capturePageViews"] = FALSE],
                      "captureSessionEvents", TRUE)
    /\ Constructed

NextSession ==
    \/ InitCall
    \/ InitResumes
    \/ Destroy
    \/ BeforeUnload
    \/ VisibilityChange
    \/ SessionTimerFires
    \/ SessionWait

SpecSession == InitSession /\ [][NextSession]_vars

\* the page-view tracker and a click listener alone, for the URLs of the page
NextReferrer ==
    \/ TrackPageView
    \/ BaseEventClick

SpecReferrer == Init /\ [][NextReferrer]_vars

\* a tracker constructed with captureIdleEvents on, over the life of its page
InitIdle ==
    /\ config = With([DEFAULT_CONFIG EXCEPT !["capturePageViews"] = FALSE],
                      "captureIdleEvents", TRUE)
    /\ Constructed

NextIdle ==
    \/ InitCall
    \/ InitResumes
    \/ Destroy
    \/ IdleActivity
    \/ IdleTimerFires
    \/ IdleWait

SpecIdle == InitIdle /\ [][NextIdle]_vars

\* the tracker whatever the fingerprinting collaborator does
NextUserId ==
    \/ InitCall
    \/ InitResumes
    \/ InitFallsBack
    \/ Click
    \/ Destroy

SpecUserId == Init /\ [][NextUserId]_vars

\* a tracker constructed with localOnly: true
InitLocalOnly ==
    /\ config \in {With(c, "localOnly", TRUE) : c \in Configs}
    /\ Constructed

SpecLocalOnly == InitLocalOnly /\ [][NextFixedConfig]_vars

\* the tracker and the page's calls of clearEvents() and flush()
NextQueues ==
    \/ NextFixedConfig
    \/ ClearEvents

SpecQueues == Init /\ [][NextQueues]_vars

\* the tracker and the page's calls of track()
NextManual ==
    \/ InitCall
    \/ InitResumes
    \/ Destroy
    \/ Track
    \/ ManualEvent

SpecManual == Init /\ [][NextManual]_vars

\* a page that follows the README quick start
NextQuickStart ==
    \/ QuickStart
    \/ InitCall
    \/ InitResumes
    \/ Track
    \/ ManualEvent
    \/ Destroy

SpecQuickStart == Init /\ [][NextQuickStart]_vars

\* a tracker that captures session events, its page navigating, being clicked,
\* scrolled and unloaded; nothing clears the introspection queue
InitCounters ==
    /\ config \in {With(c, "captureSessionEvents", TRUE) : c \in Configs}
    /\ Constructed

\* an SPA navigation seen by the MutationObserver of setupPageViewTracking
SpaNavigation ==
    /\ previousUrl # "null"
    /\ TrackPageView

\* a scroll on a page whose tracker is initialised (captureScrolls is on by default)
SessionScroll ==
    /\ isInitialized
    /\ Scroll

NextCounters ==
    \/ InitCall
    \/ InitResumes
    \/ Click
    \/ SpaNavigation
    \/ SessionScroll
    \/ BeforeUnload

SpecCounters == InitCounters /\ [][NextCounters]_vars

\* a tracker with session events and manual tracking, its queue read and
\* cleared and its buffer flushed by the page
NextConversion ==
    \/ InitCall
    \/ InitResumes
    \/ Track
    \/ \E name \in EventNames : CustomEvent(name)
    \/ ClearEvents
    \/ Flush
    \/ SendResolves
    \/ BeforeUnload

SpecConversion == InitSession /\ [][NextConversion]_vars

\* the error click listener and the error listener taken alone
NextErrorClick ==
    \/ ErrClick
    \/ ErrorCaptured
    \/ ErrorTimeoutFires
    \/ \E d \in ErrSteps : ErrWait(d)

\* one storage adapter of either kind taken alone
InitStorage ==
    /\ config = DEFAULT_CONFIG
    /\ Fresh
    /\ adapter \in Adapters

NextStorage ==
    \/ \E k \in StoreSizes : StoreCall(k)
    \/ StoreResumes

SpecStorage == InitStorage /\ [][NextStorage]_vars

\* a tracker constructed with an endpoint and an API key, which the page changes
InitDelivery ==
    /\ config = With(With(DEFAULT_CONFIG, "endpoint", "https://collector.example/a"),
                      "apiKey", "key-a")
    /\ Constructed

NextDelivery ==
    \/ NextFixedConfig
    \/ UpdateDelivery

SpecDelivery == InitDelivery /\ [][NextDelivery]_vars

\* a tracker whose init() may throw in setupSessionTracking
NextAtomicInit ==
    \/ NextFixedConfig
    \/ InitThrows

SpecAtomicInit == InitCounters /\ [][NextAtomicInit]_vars

InitErrorClick ==
    /\ config = DEFAULT_CONFIG
    /\ Constructed

SpecErrorClick == InitErrorClick /\ [][NextErrorClick]_vars

----------------------------------------------------------------------------
(* Properties *)

RECURSIVE TotalLen(_)
TotalLen(payloads) ==
    IF payloads = <<>> THEN 0 ELSE Len(Head(payloads)) + TotalLen(Tail(payloads))

RECURSIVE InFlightLen(_)
InFlightLen(sends) ==
    IF sends = {} THEN 0
    ELSE LET s == CHOOSE x \in sends : TRUE
         IN  Len(s.events) + InFlightLen(sends \ {s})

InFlightIds == UNION {Ids(s.events) : s \in inflight}

DeliveredIds == UNION {Ids(delivered[i]) : i \in DOMAIN delivered}

Captured == 1..(nextEvent - 1)

\* C1: as long as destroy() was never called, init() calls - overlapping ones
\* included - leave at most one listener per event family.
C1_InitRegistersOnce ==
    ~everDestroyed => \A f \in Families : listeners[f] <= 1

\* every captured event is in exactly one place
Conserved ==
    /\ Ids(batchQueue) \cup InFlightIds \cup DeliveredIds = Captured
    /\ Len(batchQueue) + InFlightLen(inflight) + TotalLen(delivered) = nextEvent - 1

\* a step in which the send s is rejected puts its events back in the buffer
RequeueCounted ==
    \A s \in inflight :
        (inflight' = inflight \ {s} /\ delivered' = delivered)
            => /\ Len(batchQueue') = Len(batchQueue) + Len(s.events)
               /\ Ids(s.events) \subseteq Ids(batchQueue')

\* C2: without clearBatch()/destroy(), every event handed to batch() is in
\* exactly one of the buffer, an in-flight send and a completed send, and a
\* rejected send makes getBatchSize() count its events again.
C2_EventsConserved == []Conserved /\ [][RequeueCounted]_vars

\* a rejected send has put events back (only then is the buffer non-empty with
\* no timer armed), while other events are in flight and others delivered
C2_Witness ==
    /\ batchQueue # <<>>
    /\ flushTimer = 0
    /\ inflight # {}
    /\ delivered # <<>>

\* C3: the delivery buffer is in capture order.
C3_BufferChronological ==
    \A i, j \in DOMAIN batchQueue : i < j => batchQueue[i].id < batchQueue[j].id

\* C4: a batch() call that brings the buffer to DEFAULT_BATCH_SIZE or more
\* starts, in that call, exactly one send() carrying the whole buffer.
C4_SizeTriggerSendsOnce ==
    [][(nextEvent' > nextEvent
            /\ Len(batchQueue) + (nextEvent' - nextEvent) >= DEFAULT_BATCH_SIZE)
        => /\ batchQueue' = <<>>
           /\ \E s \in inflight' :
                 /\ s \notin inflight
                 /\ inflight' = inflight \cup {s}
                 /\ s.events = batchQueue \o NewEvents(nextEvent' - nextEvent, "custom")]_vars

\* a size-triggered send is in flight, its batch() awaiting it
C4_Witness ==
    \E s \in inflight : s.inBatch /\ Len(s.events) >= DEFAULT_BATCH_SIZE

\* no event is in two sends in flight, nor in the buffer and in a send in flight
InFlightDisjoint ==
    /\ \A s, t \in inflight : s # t => Ids(s.events) \cap Ids(t.events) = {}
    /\ Ids(batchQueue) \cap InFlightIds = {}

\* a flush() sends what the buffer holds and empties it; on an empty buffer it sends nothing
FlushSwaps ==
    nextEvent' = nextEvent =>
        \A s \in inflight' \ inflight :
            s.events = batchQueue /\ batchQueue # <<>> /\ batchQueue' = <<>>

\* C5: a flush() called while another send is in flight sends only what was
\* buffered since, or nothing; no event is in two sends in flight at once.
C5_FlushReentrant == []InFlightDisjoint /\ [][FlushSwaps]_vars

\* two sends are in flight at the same time
C5_Witness == Cardinality(inflight) >= 2

\* C6: from the return of destroy() until the next init() call the tracker is
\* uninitialized and has no active auto-flush interval.
C6_DestroyedStaysDown ==
    destroyed => (~isInitialized /\ DOMAIN intervals = {})

\* C7: between the return of destroy() and the next init() call no listener
\* captures an event (init() continuations apart).
C7_InertAfterDestroy ==
    [][(destroyed /\ destroyed' /\ initAwaiting' = initAwaiting)
        => (nextEvent' = nextEvent /\ eventQueue' = eventQueue)]_vars

\* C8: destroy() has returned, every send has settled, nothing was captured
\* since: both queues are empty and no flush timer is pending.
C8_CleanAfterDestroy ==
    (destroyed /\ quiet /\ inflight = {})
        => (eventQueue = <<>> /\ getBatchSize = 0 /\ DOMAIN timers = {})

\* C9: on an initialized tracker whose captureClicks is off, no click record
\* is captured.
C9_ToggleOffStopsClicks ==
    [][(isInitialized /\ ~config["captureClicks"])
        => \A i \in DOMAIN eventQueue' :
              eventQueue'[i].id >= nextEvent => eventQueue'[i].type # "click"]_vars

\* an initialized tracker has its auto-flush interval running
IntervalRuns == isInitialized => autoFlushInterval \in DOMAIN intervals

\* on an initialized tracker the buffer never waits longer than one interval
FlushedWithinInterval == waited <= TRACKER_FLUSH_INTERVAL

\* a buffered event of an initialized tracker is delivered, unless destroy() comes first
EventuallyDelivered ==
    \A e \in 1..MaxEvents :
        (isInitialized /\ e \in Ids(batchQueue)) ~> (e \in DeliveredIds \/ ~isInitialized)

BatchCompletes ==
    \/ batchCalls' = batchCalls + 1 /\ inflight' = inflight
    \/ \E s \in inflight : s.inBatch /\ s \notin inflight'

\* exactly one flush timer is pending, it is the one flushTimer names and it
\* has the whole AUTO_FLUSH_INTERVAL left
OneFreshTimer ==
    /\ Cardinality(DOMAIN timers') = 1
    /\ flushTimer' \in DOMAIN timers'
    /\ timers'[flushTimer'] = AUTO_FLUSH_INTERVAL

\* at most one flush timer is pending
TimerDebounced == Cardinality(DOMAIN timers) <= 1

\* C11: at most one flush timer is pending at any moment, and when a batch()
\* call completes exactly one is pending, due AUTO_FLUSH_INTERVAL ms later.
C11_TimerDebounced == []TimerDebounced /\ [][BatchCompletes => OneFreshTimer]_vars

\* the send s is rejected in this step
Rejected(s) == s \in inflight /\ s \notin inflight' /\ delivered' = delivered

\* the events captured in this step are at the end of the introspection queue
LoggedInQueue ==
    nextEvent' > nextEvent =>
        /\ Len(eventQueue') >= nextEvent' - nextEvent
        /\ \A i \in 1..(nextEvent' - nextEvent) :
              eventQueue'[Len(eventQueue') - i + 1].id = nextEvent' - i

\* a rejected send ends in a handler of the tracker or rejects an explicit
\* flush(); one started by a capture handler's batch() always ends in a handler,
\* and the introspection queue is left as it was
FailureContained ==
    \A s \in inflight :
        Rejected(s) =>
            /\ s.rejectsTo \in {"catch", "flush"}
            /\ s.inBatch => s.rejectsTo = "catch"
            /\ eventQueue' = eventQueue

\* C12: logEvent returns with the event in the introspection queue, and the
\* failure of a send reaches only the caller of an explicit flush(): those of
\* size-triggered, timer-triggered and interval-triggered flushes are caught.
C12_FailureContained == [][LoggedInQueue /\ FailureContained]_vars

\* the send of a full batch started inside logEvent has failed: the batch is
\* back in the buffer, no timer was armed, the page is still tracked
C12_Witness ==
    /\ Len(batchQueue) >= DEFAULT_BATCH_SIZE
    /\ Len(eventQueue) >= DEFAULT_BATCH_SIZE
    /\ flushTimer = 0
    /\ inflight = {}
    /\ isInitialized

\* the events handed to batch() in this step
Batched == [i \in 1..(nextEvent' - nextEvent) |-> [id |-> nextEvent + i - 1, type |-> "custom"]]

\* a step that empties a non-empty buffer is a flush(): it starts exactly one
\* send, carrying all of the buffer
OnePostPerFlush ==
    (batchQueue \o Batched # <<>> /\ batchQueue' = <<>>) =>
        \E s \in inflight' :
            /\ inflight' \ inflight = {s}
            /\ s.events = batchQueue \o Batched

\* no step starts a send of nothing, or more than one send; with the buffer
\* empty and nothing handed to batch(), no step starts a send
NoEmptyPost ==
    /\ Cardinality(inflight' \ inflight) <= 1
    /\ \A s \in inflight' \ inflight : s.events # <<>>
    /\ (batchQueue = <<>> /\ nextEvent' = nextEvent) => inflight' \subseteq inflight

\* the step in which a send is rejected starts no send: its events are in the
\* buffer, not in flight
NoRetry ==
    \A s \in inflight :
        Rejected(s) =>
            /\ inflight' = inflight \ {s}
            /\ Ids(s.events) \subseteq Ids(batchQueue')
            /\ Ids(s.events) \cap UNION {Ids(t.events) : t \in inflight'} = {}

\* C13: a flush() on a non-empty buffer makes exactly one POST carrying the
\* whole swapped-out buffer, a flush() on an empty buffer makes none, and a
\* failed send is not retried by send().
C13_OnePostPerFlush == [][OnePostPerFlush /\ NoEmptyPost /\ NoRetry]_vars

\* an explicit flush() has posted a buffer of several events in one send,
\* after an earlier send had failed and another had succeeded
C13_Witness ==
    /\ batchQueue = <<>>
    /\ delivered # <<>>
    /\ \E s \in inflight :
          ~s.inBatch /\ s.rejectsTo = "flush" /\ Len(s.events) > DEFAULT_BATCH_SIZE

\* this step is a click handled by the rage listener
ClickStep == clicksSeen' = clicksSeen + 1

\* this step logs a rage_click for the selector clicked
RageEmitted ==
    /\ nextEvent' = nextEvent + 1
    /\ eventQueue' # <<>>
    /\ eventQueue'[Len(eventQueue')].type = "rage_click"
    /\ eventQueue'[Len(eventQueue')].element = clicked'

\* the clicks before this one, on the selector clicked, of the past 2000 ms
\* that no rage_click has counted
Uncounted == SelectSeq(clickTrail[clicked'], LAMBDA c : ~c.counted)

\* C14: a click that is the third of three clicks on its selector within less
\* than 2000 ms, none of them counted by an earlier rage_click, emits one.
C14_ThirdClickEmits ==
    [][(ClickStep /\ Len(Uncounted) >= 2) => RageEmitted]_vars

\* C15: in a burst of clicks on one selector, all within 2000 ms of its first
\* click, the k-th click emits a rage_click exactly when k is a multiple of 3.
C15_EveryThirdClick ==
    [][(ClickStep /\ burst'[clicked'].n > 0)
        => (RageEmitted <=> burst'[clicked'].n % 3 = 0)]_vars

\* the sixth click of a burst has emitted the second rage_click of its selector
C15_Witness ==
    /\ clicked \in Selectors
    /\ burst[clicked].n = 6
    /\ Cardinality({i \in DOMAIN eventQueue :
            eventQueue[i].type = "rage_click" /\ eventQueue[i].element = clicked}) = 2

\* C16: a rage_click is emitted only by a click that has two earlier clicks on
\* its selector within the 2000 ms before it.
C16_OnlyThreeInWindow ==
    [][(ClickStep /\ nextEvent' > nextEvent)
        => (RageEmitted /\ Len(clickTrail[clicked']) >= 2)]_vars

\* a rage_click has been emitted and, later, three clicks on that selector
\* spread over more than 2000 ms went by without one: the third opened a new
\* count, 1000 ms after the second
C16_Witness ==
    /\ clicked \in Selectors
    /\ clicksSeen = 6
    /\ Len(eventQueue) = 1
    /\ eventQueue[1].element = clicked
    /\ clickCounts[clicked] = [count |-> 1, age |-> 0]
    /\ clickTrail[clicked] = <<[age |-> 1000, counted |-> FALSE],
                               [age |-> 0, counted |-> FALSE]>>

\* C17: whatever the scroll positions and the init()/destroy() calls, no
\* threshold has more than one scroll_depth event logged for it.
C17_DepthLoggedOnce ==
    \A i \in DOMAIN scrollDepthThresholds : depthLogged[i] <= 1

\* the page was scrolled past 50%, back up and past 50% again, the second
\* time on a tracker that was destroyed and initialized again; one event
C17_Witness ==
    /\ Len(scrollLog) = 3
    /\ scrollLog = <<{50}, {}, {50}>>
    /\ depthLogged[1] = 1
    /\ everDestroyed /\ isInitialized
    /\ eventQueue = <<>>

\* C18: every scroll event of a page whose documentHeight - viewportHeight is
\* 0 or negative reports the scrollPercentage 0.
C18_UnscrollableIsZero ==
    \A i \in DOMAIN eventQueue :
        (eventQueue[i].type = "scroll"
            /\ eventQueue[i].documentHeight - eventQueue[i].viewportHeight <= 0)
        => eventQueue[i].scrollPercentage = Num(0)

\* C19: the formData of a form_submit event holds exactly the submitted
\* fields whose name does not contain password, secret or token.
C19_FormDataFiltered ==
    \A i \in DOMAIN eventQueue :
        eventQueue[i].type = "form_submit"
            => DOMAIN eventQueue[i].formData = eventQueue[i].submitted \ SensitiveNames

\* the form {username, password, csrf_token} was submitted and only username
\* was captured
C19_Witness ==
    \E i \in DOMAIN eventQueue :
        /\ eventQueue[i].type = "form_submit"
        /\ eventQueue[i].submitted = {Username, Password, CsrfToken}
        /\ DOMAIN eventQueue[i].formData = {Username}

\* C20: no input or change event carries the value of a field whose name
\* contains password, secret or token.
C20_NoSensitiveValue ==
    \A i \in DOMAIN eventQueue :
        eventQueue[i].type \in {"input", "change"}
            => eventQueue[i].name \notin SensitiveNames

\* C21: whatever the order of beforeunload events, visibility changes, hidden
\* checks, init() and destroy() calls, a tracker emits at most one session_end.
C21_OneSessionEnd == Len(sessionLog) <= 1

\* after two init() calls, beforeunload has emitted the session_end, and the
\* check of a document hidden for a full second has run without a second one
C21_Witness ==
    /\ sessionListeners >= 2
    /\ Len(sessionLog) = 1
    /\ sessionLog[1].by = "beforeunload"
    /\ visibility = "hidden"
    /\ hiddenFor = SESSION_END_DELAY
    /\ \A ms \in SessionDelays : hiddenTimers[ms] = 0

\* C22: a session_end emitted by a hidden check finds the document hidden for
\* the whole 1000 ms before it, without a visible spell in between.
C22_HiddenForASecond ==
    \A i \in DOMAIN sessionLog :
        sessionLog[i].by = "timer" => sessionLog[i].hiddenFor >= SESSION_END_DELAY

\* C23: a tracker emits at most one session_start over all its init() and
\* destroy() calls.
C23_OneSessionStart == sessionStarts <= 1

\* the first value of a chain that is neither null nor empty, "undefined"
\* when there is none
RECURSIVE FirstNonEmpty(_)
FirstNonEmpty(chain) ==
    IF chain = <<>> THEN "undefined"
    ELSE IF Head(chain) \notin {"null", ""} THEN Head(chain)
    ELSE FirstNonEmpty(Tail(chain))

\* C24: the referrer of every event other than the session events, page views
\* included, is the first non-empty value of utm_source, ref, referrer, source,
\* the previous page's URL and document.referrer.
C24_ReferrerPriority ==
    \A i \in DOMAIN eventQueue :
        LET e == eventQueue[i]
            first == FirstNonEmpty(<<e.page.utm_source, e.page.ref, e.page.referrer,
                                     e.page.source, e.previousUrl,
                                     e.page.documentReferrer>>)
        IN  (e.type \in {"pageview", "click"} /\ first # "undefined")
                => e.referrer = first

\* the idle events emitted alternate, the first is an idle_start
IdleAlternates ==
    \A i \in DOMAIN idleLog :
        idleLog[i].type = IF i % 2 = 1 THEN "idle_start" ELSE "idle_end"

\* an idle_start is emitted by the timer, IDLE_TIMEOUT after the last activity
IdleStartOnTimeout ==
    \A i \in DOMAIN idleLog :
        idleLog[i].type = "idle_start"
            => idleLog[i].by = "timer" /\ idleLog[i].elapsed = IDLE_TIMEOUT

\* an idle_end is emitted by an activity event
IdleEndOnActivity ==
    \A i \in DOMAIN idleLog :
        idleLog[i].type = "idle_end" => idleLog[i].by = "activity"

\* C25: idle_start and idle_end alternate from an idle_start on; idle_start
\* is emitted when the timeout elapses without activity, idle_end at the first
\* activity event after it.
C25_IdleCycle ==
    /\ IdleAlternates
    /\ IdleStartOnTimeout
    /\ IdleEndOnActivity

\* C26: the idleDuration of an idle_end is the time between the emission of
\* its idle_start and the activity that ended the idle period.
C26_IdleDuration ==
    \A i \in DOMAIN idleLog :
        (idleLog[i].type = "idle_end" /\ idleLog[i].by = "activity")
            => idleLog[i].idleDuration = idleLog[i].elapsed

\* a tracker with a listener registered knows its user id
ListenersSeeUserId ==
    (\E f \in Families : listeners[f] > 0) => userId \notin {"null", ""}

\* the events captured in a step are stamped with a resolved user id
StampedResolved ==
    nextEvent' > nextEvent => stampedUserId(userId') \notin {"initializing", "null", ""}

\* C27: every event of a listener registered by init(), and of init() itself,
\* carries a resolved userId, whether the fingerprint resolved or rejected.
C27_UserIdResolved == []ListenersSeeUserId /\ [][StampedResolved]_vars

\* a click was captured by a tracker whose fingerprint had rejected
C27_Witness ==
    /\ userId = "fallback"
    /\ listeners["click"] > 0
    /\ \E i \in DOMAIN eventQueue : eventQueue[i].type = "click"

\* C28: a tracker whose config.localOnly is true makes no POST: no send() is
\* started by a capture, a timer, the interval, flush() or destroy().
C28_LocalOnlyNeverPosts ==
    Option(config, "localOnly") => inflight = {} /\ delivered = <<>>

\* a clearEvents() call leaves the delivery buffer and its sends as they were
ClearKeepsBuffer ==
    clearCalls' # clearCalls => UNCHANGED <<batchQueue, inflight, delivered>>

\* a step in which a flush() of the page starts its send, or in which a send settles
FlushStep ==
    \/ \E s \in inflight' \ inflight : s.rejectsTo = "flush"
    \/ \E s \in inflight \ inflight' : TRUE

\* C29: clearEvents() empties the introspection queue and leaves the delivery
\* buffer unchanged; flush(), whether its send succeeds or fails, leaves the
\* introspection queue unchanged.
C29_QueuesApart ==
    [][ClearKeepsBuffer /\ (FlushStep => eventQueue' = eventQueue)]_vars

\* after clearEvents() the buffer still held the event, which a flush() then
\* delivered while a later event sat in the introspection queue
C29_Witness ==
    /\ clearCalls > 0
    /\ delivered # <<>>
    /\ eventQueue # <<>>
    /\ \E i \in DOMAIN delivered : \E e \in Ids(delivered[i]) :
           e \notin Ids(eventQueue) /\ e < nextEvent - 1

\* a track() call on a tracker that is not initialized changes nothing
TrackWarnsOnly ==
    (trackCalls' # trackCalls /\ ~isInitialized)
        => UNCHANGED <<manualListeners, listeners, avars, nextEvent, eventQueue,
                       config, userId, isInitialized, autoFlushInterval, intervals>>

\* C30: track(schema) on a tracker that is not initialized, before init() has
\* completed or after destroy(), registers no listener and changes no state.
C30_TrackNeedsInit == [][TrackWarnsOnly]_vars

\* every track() call the page made met a tracker that was not initialized, the
\* tracker has been destroyed, and no listener of a schema is registered
C30_Witness ==
    /\ trackCalls = MaxTrackCalls
    /\ manualListeners = 0
    /\ everDestroyed
    /\ ~isInitialized

\* the factory call and the track() call that follows it in the same task
FactoryThenTrack == initCalls = 0 /\ initCalls' = 1 /\ trackCalls' = trackCalls + 1

\* C31: a track() call made right after the indeks() factory returns takes
\* effect: the listeners of its schema are registered.
C31_QuickStartTracks == [][FactoryThenTrack => manualListeners' > manualListeners]_vars

\* the events of one type in a sequence of events
CountOf(events, type) == Cardinality({i \in DOMAIN events : events[i].type = type})

\* the counters of a session_end event match the events captured before it
CountersMatch(e, seen) ==
    /\ e.totalClicks = CountOf(seen, "click")
    /\ e.totalScrolls = CountOf(seen, "scroll")
    /\ e.pagesViewed = CountOf(seen, "pageview")
    /\ e.bounce = (CountOf(seen, "pageview") = 1)

\* C32: session_end reports the clicks, the scrolls and the page views that
\* were captured during the session, and bounce exactly for one page view.
C32_SessionCounters ==
    \A i \in DOMAIN eventQueue :
        eventQueue[i].type = "session_end"
            => CountersMatch(eventQueue[i], SubSeq(eventQueue, 1, i - 1))

\* the page carries no utm_source, ref, referrer or source parameter
NoParams(page) == FirstNonEmpty(<<page.utm_source, page.ref, page.referrer, page.source>>) = "undefined"

\* C33: an event captured on a page after that page's pageview was recorded,
\* with no utm/ref parameter, never gets the page's own URL as referrer, and on
\* the first page it gets document.referrer.
C33_PreviousPage ==
    \A i \in DOMAIN eventQueue :
        LET e == eventQueue[i]
        IN  (e.type = "click" /\ NoParams(e.page) /\ e.views >= 1)
                => /\ e.referrer # e.url
                   /\ e.views = 1 => e.referrer = Or(e.page.documentReferrer, "undefined")

\* C34: session_end.converted is true exactly when a custom event whose name
\* contains "convert" was captured earlier in the session, whatever the page
\* read, cleared or flushed in between.
C34_ConvertedFlag ==
    \A i \in DOMAIN sessionLog :
        sessionLog[i].converted = sessionLog[i].conversionSeen

\* the place in errTrail of the error event id
ErrorAt(id) == CHOOSE i \in DOMAIN errTrail : errTrail[i].kind = "error" /\ errTrail[i].error = id

\* error e was captured after click c and within a second of it
ErrorFollows(c, e) ==
    /\ errTrail[c].kind = "click"
    /\ errTrail[e].kind = "error"
    /\ e > c
    /\ errTrail[e].at - errTrail[c].at < ERROR_WINDOW

\* every error_click names a click and an error that followed it
ErrorClickAttributed ==
    \A i \in DOMAIN errTrail :
        errTrail[i].kind = "error_click"
            => ErrorFollows(errTrail[i].click, ErrorAt(errTrail[i].error))

\* every click an error followed has its error_click once its check is over
ErrorClickComplete ==
    \A c, e \in DOMAIN errTrail :
        (ErrorFollows(c, e) /\ ~(errorTimeout # -1 /\ errorTarget = c))
            => \E i \in DOMAIN errTrail :
                   errTrail[i].kind = "error_click" /\ errTrail[i].click = c

\* C35: an error_click is emitted for a click only when an error was captured
\* after it and within a second, and every such click gets one, also when
\* another click follows within 100 ms.
C35_ErrorClicks == ErrorClickAttributed /\ ErrorClickComplete

\* C36: when store() calls overlapped and all have resolved, retrieve() returns
\* every event handed to them and size() is their total, for each adapter.
C36_OverlappingStores ==
    (storeOverlapped /\ storePending = <<>>)
        => /\ Ids(retrieve) = 1..(storeNext - 1)
           /\ size = storeNext - 1

\* C37: in the pipeline taken alone, whenever the delivery buffer is non-empty
\* and no send is in flight, a flush timer is pending, also after a failed send
\* has re-queued its batch.
C37_TimerWhileBuffered ==
    (batchQueue # <<>> /\ inflight = {})
        => (flushTimer # 0 /\ flushTimer \in DOMAIN timers)

\* C38: after updateConfig({endpoint: E}) or updateConfig({apiKey: K}) every
\* POST the tracker starts goes to E and carries K: the pipeline posts with the
\* tracker's live configuration.
C38_PostsWithLiveConfig ==
    [][(inflight' \ inflight # {}) => postTarget(analyticsConfig) = postTarget(config)]_vars

\* C39: no single POST carries more than MAX_BATCH_SIZE events, for any sequence
\* of batch() calls, failed sends with re-queue and flushes.
C39_PostWithinMax == \A s \in inflight : Len(s.events) <= MAX_BATCH_SIZE

\* an init() call ended without initialising the tracker
InitRejected ==
    /\ ~isInitialized'
    /\ \/ initAwaiting' < initAwaiting
       \/ initCalls' > initCalls /\ initAwaiting' = initAwaiting /\ ~isInitialized

\* an init() call that throws leaves no listener and no event behind
NothingLeftBehind ==
    InitRejected => UNCHANGED <<listeners, eventQueue, batchQueue, inflight>>

\* after one init() has completed, each capability is registered once
RegisteredOnce ==
    (isInitialized /\ sessionStarts = 1) => \A f \in Families : listeners[f] <= 1

\* C40: init() is all-or-nothing: a call whose setup throws leaves no listener
\* active and no event queued, so a later successful init() has each capability
\* registered exactly once.
C40_InitAllOrNothing == []RegisteredOnce /\ [][NothingLeftBehind]_vars

====
